---- MODULE Spec2Model ----
(***************************************************************************)
(* Change tracking of a ServerObject (adminapi/server_object.go) and its   *)
(* commit (adminapi/commit.go): attributes, oldValues and the deleted flag *)
(* under Set, Delete, Rollback and Commit, with CommitState,               *)
(* serializeChanges, jsonEqual, toAnySlice and sliceDiff as operators.     *)
(* SpecColl is a ServerObjects collection under its Set, Delete, Rollback   *)
(* and Commit; SpecQuery is a Query under SetAttributes, AddAttributes,    *)
(* Count, All and One; SpecParse is FromQuery on query texts; SpecNew is    *)
(* NewObject; SpecMulti is a MultiAttr from GetMulti under Add, Delete,    *)
(* Clear, Set and Rollback, with the arrays behind the slices; SpecShare   *)
(* is two ServerObjects holding pointers to the same records; SpecCache is *)
(* a Query with the caller that keeps the records All and One returned.    *)
(***************************************************************************)
EXTENDS Integers, Sequences, FiniteSets, TLC

(***************************************************************************)
(* Bounds                                                                  *)
(***************************************************************************)
\* longest multi-valued attribute a record of the Record specification holds
MaxLen == 1
\* longest sequence handed to sliceDiff in the SpecDiff specification
MaxDiffLen == 2

\* largest number of members of the ServerObjects of SpecColl
MaxMembers == 2
\* longest list of attributes a caller hands to or builds up in a Query
MaxAttrs == 2
\* largest number of requests one Query hands to the transport
MaxFetches == 2
\* deepest nesting of calls in an expression of a query text
MaxDepth == 2
\* longest sequence the field tags of SpecMulti holds at first
MaxTags == 2
\* largest number of calls on the record and the MultiAttr of SpecMulti
MaxCalls == 3

\* elements of the multi-valued attribute of the Record specification
TagElems == {"a", "b"}
\* elements of the sequences of the SpecDiff specification
DiffElems == {"a", "b", "c"}

RECURSIVE SeqsUpTo(_, _)
SeqsUpTo(S, max) ==
    IF max = 0 THEN {<<>>}
    ELSE LET shorter == SeqsUpTo(S, max - 1)
         IN  shorter \cup {Append(q, x) : q \in {p \in shorter : Len(p) = max - 1}, x \in S}

\* every ordering of a finite set: the orders in which Go may range over a map
RECURSIVE Orderings(_)
Orderings(S) ==
    IF S = {} THEN {<<>>}
    ELSE UNION {{<<x>> \o q : q \in Orderings(S \ {x})} : x \in S}

(***************************************************************************)
(* Go values held in an Attributes map (map[string]any).  t is the dynamic *)
(* type; a typed nil slice is a value of its own, distinct from the        *)
(* untyped nil and from the empty slice.  Every record of the module lists *)
(* its fields in the order TLC sorts them into (the order in which the     *)
(* names first occur in the module), so that no worker reorders a record   *)
(* another worker is reading.                                              *)
(***************************************************************************)
Nil == [t |-> "nil", s |-> "", n |-> 0, l |-> <<>>]
Str(x) == [t |-> "string", s |-> x, n |-> 0, l |-> <<>>]
Float64(k) == [t |-> "float64", s |-> "", n |-> k, l |-> <<>>]
GoInt(k) == [t |-> "int", s |-> "", n |-> k, l |-> <<>>]
AnySlice(q) == [t |-> "[]any", s |-> "", n |-> 0, l |-> q]
StringSlice(q) == [t |-> "[]string", s |-> "", n |-> 0, l |-> q]
NilAnySlice == [t |-> "[]any(nil)", s |-> "", n |-> 0, l |-> <<>>]
NilStringSlice == [t |-> "[]string(nil)", s |-> "", n |-> 0, l |-> <<>>]

\* json.Marshal of one string element of a slice
MarshalElem(e) == <<"S", e>>

RECURSIVE MarshalElems(_)
MarshalElems(q) ==
    IF q = <<>> THEN <<>> ELSE MarshalElem(Head(q)) \o MarshalElems(Tail(q))

\* json.Marshal of a value, as a sequence of tokens: nil and nil slices give
\* null, float64(1) and int(1) the same number
Marshal(v) ==
    CASE v.t = "nil" -> <<"null">>
      [] v.t = "[]any(nil)" -> <<"null">>
      [] v.t = "[]string(nil)" -> <<"null">>
      [] v.t = "string" -> <<"S", v.s>>
      [] v.t = "float64" -> <<"N", ToString(v.n)>>
      [] v.t = "int" -> <<"N", ToString(v.n)>>
      [] v.t = "[]any" -> <<"[">> \o MarshalElems(v.l) \o <<"]">>
      [] v.t = "[]string" -> <<"[">> \o MarshalElems(v.l) \o <<"]">>

jsonEqual(a, b) == Marshal(a) = Marshal(b)

\* toAnySlice: the []any with the elements of v, or the nil slice when v is
\* not a slice (a nil []any is returned as it is, that is as nil)
toAnySlice(v) ==
    CASE v.t = "nil" -> NilAnySlice
      [] v.t = "[]any" -> v
      [] v.t = "[]any(nil)" -> v
      [] v.t = "[]string" -> AnySlice(v.l)
      [] v.t = "[]string(nil)" -> AnySlice(<<>>)
      [] OTHER -> NilAnySlice

\* the value of the map built by sliceDiff for key k: the last element of q
\* that marshals to k
LastWithKey(q, k) ==
    q[CHOOSE i \in DOMAIN q :
        /\ MarshalElem(q[i]) = k
        /\ \A j \in DOMAIN q : j > i => MarshalElem(q[j]) # k]

KeySet(q) == {MarshalElem(q[i]) : i \in DOMAIN q}

\* sliceDiff with the two results exchanged
sliceDiff_Swapped(old, cur) ==
    LET oldKeys == KeySet(old)
        curKeys == KeySet(cur)
        added == {LastWithKey(cur, k) : k \in curKeys \ oldKeys}
        removed == {LastWithKey(old, k) : k \in oldKeys \ curKeys}
    IN  {[add |-> r, remove |-> a] : a \in Orderings(added), r \in Orderings(removed)}

\* sliceDiff comparing position by position instead of set by set
sliceDiff_Positional(old, cur) ==
    LET differs(p, q, i) == i > Len(q) \/ p[i] # q[i]
    IN  {[add |-> SelectSeq(cur, LAMBDA e : \E i \in DOMAIN cur : cur[i] = e /\ differs(cur, old, i)),
          remove |-> SelectSeq(old, LAMBDA e : \E i \in DOMAIN old : old[i] = e /\ differs(old, cur, i))]}

\* sliceDiff ranging over the two slices instead of over the maps built from
\* them: an element is reported as often as it occurs
sliceDiff_KeepsRepeats(old, cur) ==
    {[add |-> SelectSeq(cur, LAMBDA e : MarshalElem(e) \notin KeySet(old)),
      remove |-> SelectSeq(old, LAMBDA e : MarshalElem(e) \notin KeySet(cur))]}

\* sliceDiff(old, cur): every (add, remove) the two range loops over the maps
\* can produce
sliceDiff(old, cur) ==
    LET oldKeys == KeySet(old)
        curKeys == KeySet(cur)
        added == {LastWithKey(cur, k) : k \in curKeys \ oldKeys}
        removed == {LastWithKey(old, k) : k \in oldKeys \ curKeys}
    IN  {[add |-> a, remove |-> r] : a \in Orderings(added), r \in Orderings(removed)}

(***************************************************************************)
(* State of one ServerObject, with the history needed to state its         *)
(* contract                                                                *)
(***************************************************************************)
VARIABLES
    attributes,   \* ServerObject.attributes: key -> value
    oldValues,    \* ServerObject.oldValues: key -> value before the first Set
    deleted,      \* ServerObject.deleted
    lastOp,       \* the last call made on the object and its result
    settled,      \* history: attributes at the last settle point
    written,      \* history: keys a Set succeeded on since the last settle point
    diffOld,      \* SpecDiff: first argument of sliceDiff
    diffCur,      \* SpecDiff: second argument of sliceDiff
    diffOut,      \* SpecDiff: result of the call, or NoDiff before it
    objects,      \* SpecColl: a ServerObjects, a sequence of ServerObject
    collSettled,  \* SpecColl history: attributes of each member at its last settle point
    collOp,       \* SpecColl: the last call that returned and its result
    wire,         \* SpecColl: the commit requests handed to the transport, not answered yet
    call,         \* SpecColl: the Commit waiting in sendRequest, or Idle
    restrictedAttributes,  \* SpecQuery: Query.restrictedAttributes
    loaded,       \* SpecQuery: Query.loaded
    serverObjects,         \* SpecQuery: Query.serverObjects
    queryOp,      \* SpecQuery: the last call on the Query and its result
    fetches,      \* SpecQuery history: number of requests load handed to the transport
    text,         \* SpecParse: the query text handed to FromQuery, a sequence of tokens
    parsed,       \* SpecParse: what FromQuery returned, or NotParsed before the call
    requests,     \* SpecNew: the endpoints NewObject handed a request to, in order
    creation,     \* SpecNew: the call of NewObject: where it is and what it returned
    heap,         \* SpecMulti: the backing arrays of the slices, by address
    tags,         \* SpecMulti: the MultiAttr the caller holds
    multiOp,      \* SpecMulti: the last call and the history its contract is stated with
    colls,        \* SpecShare: two ServerObjects, each a sequence of pointers into objects
    shareOp,      \* SpecShare: the last call through one of the two and its result
    refs,         \* SpecCache: what All and One last returned to the caller
    queryFilters, \* SpecCache: Query.filters
    queryOrderBy  \* SpecCache: Query.orderBy

recordVars == <<attributes, oldValues, deleted, lastOp, settled, written>>
diffVars == <<diffOld, diffCur, diffOut>>
collVars == <<objects, collSettled, collOp, wire, call>>
queryVars == <<restrictedAttributes, loaded, serverObjects, queryOp, fetches>>
parseVars == <<text, parsed>>
newVars == <<requests, creation>>
multiVars == <<heap, tags, multiOp>>
holderVars == <<colls, shareOp, refs, queryFilters, queryOrderBy>>
vars == <<attributes, oldValues, deleted, lastOp, settled, written, diffOld, diffCur, diffOut,
          objects, collSettled, collOp, wire, call,
          restrictedAttributes, loaded, serverObjects, queryOp, fetches,
          text, parsed, requests, creation, heap, tags, multiOp,
          colls, shareOp, refs, queryFilters, queryOrderBy>>

Keys == {"object_id", "hostname", "tags"}
UnknownKey == "nonexistent"

TagLists == SeqsUpTo(TagElems, MaxLen)

\* values a fetch decodes from JSON: arrays become []any, null becomes nil
FetchedValues(key) ==
    CASE key = "object_id" -> {Float64(1)}
      [] key = "hostname" -> {Str("h1"), Str("h2")}
      [] key = "tags" -> {AnySlice(q) : q \in TagLists} \cup {Nil}

\* values a caller hands to Set; for object_id the int NewObject sets it to
InputValues(key) ==
    CASE key = "object_id" -> {GoInt(1)}
      [] key = "hostname" -> {Str("h1"), Str("h2")}
      [] key = "tags" -> {AnySlice(q) : q \in TagLists}
                         \cup {StringSlice(q) : q \in TagLists}
                         \cup {Nil, NilAnySlice, NilStringSlice}
      [] OTHER -> {Str("h1")}

NoAttributes == [k \in {} |-> Nil]

\* a call and its result: key and value are the arguments of Set, err is ""
\* when the call returned no error, id is the commit identifier it returned,
\* tracked tells that the key of Set already had a prior value, restored is the
\* number of prior values Rollback found, wasDeleted the flag before the call
Op(name, key, value, err, id, tracked, restored) ==
    [key |-> key, value |-> value, err |-> err, id |-> id,
     tracked |-> tracked, restored |-> restored, op |-> name, wasDeleted |-> deleted]

\* lastOp of a record nothing was called on yet
NewOp ==
    [key |-> "", value |-> Nil, err |-> "", id |-> 0,
     tracked |-> FALSE, restored |-> 0, op |-> "new", wasDeleted |-> FALSE]

ErrUnknownAttribute == "unknown attribute"

(***************************************************************************)
(* Read-only methods, over a record given by its three fields              *)
(***************************************************************************)
\* ObjectID: Get turns the float64 of a decoded record into an int; a value
\* that is neither float64 nor int gives 0
ObjectID(attrs) ==
    IF attrs["object_id"].t \in {"float64", "int"} THEN attrs["object_id"].n ELSE 0

StateCreated == "created"
StateDeleted == "deleted"
StateChanged == "changed"
StateConsistent == "consistent"

\* CommitState testing the deleted flag before object_id
CommitStateOf_DeletedFirst(attrs, olds, del) ==
    IF del THEN StateDeleted
    ELSE IF attrs["object_id"] = Nil THEN StateCreated
    ELSE IF \E key \in DOMAIN olds : ~jsonEqual(olds[key], attrs[key]) THEN StateChanged
    ELSE StateConsistent

CommitStateOf(attrs, olds, del) ==
    IF attrs["object_id"] = Nil THEN StateCreated
    ELSE IF del THEN StateDeleted
    ELSE IF \E key \in DOMAIN olds : ~jsonEqual(olds[key], attrs[key]) THEN StateChanged
    ELSE StateConsistent

CommitState == CommitStateOf(attributes, oldValues, deleted)

IdentityEntry(id) ==
    [old |-> Nil, add |-> <<>>, remove |-> <<>>, id |-> id, action |-> "identity", new |-> Nil]
MultiEntry(a, r) ==
    [old |-> Nil, add |-> a, remove |-> r, id |-> 0, action |-> "multi", new |-> Nil]
UpdateEntry(o, v) ==
    [old |-> o, add |-> <<>>, remove |-> <<>>, id |-> 0, action |-> "update", new |-> v]

\* the keys the loop of serializeChanges writes an entry for
ChangedKeys(attrs, olds) == {key \in DOMAIN olds : ~jsonEqual(olds[key], attrs[key])}

\* the entries the loop body can write for a changed key
ChangeEntries(oldVal, newVal) ==
    LET oldSlice == toAnySlice(oldVal)
        newSlice == toAnySlice(newVal)
    IN  IF oldSlice # NilAnySlice /\ newSlice # NilAnySlice
        THEN {MultiEntry(d.add, d.remove) : d \in sliceDiff(oldSlice.l, newSlice.l)}
        ELSE {UpdateEntry(oldVal, newVal)}

\* serializeChanges: every map the call can return.  The map starts with
\* object_id -> ObjectID() and the loop then assigns changes[key] for every
\* changed key, object_id included.
serializeChangesOf(attrs, olds) ==
    LET changed == ChangedKeys(attrs, olds)
        dom == changed \cup {"object_id"}
        entries(key) == IF key \in changed
                        THEN ChangeEntries(olds[key], attrs[key])
                        ELSE {IdentityEntry(ObjectID(attrs))}
    IN  {c \in [dom -> UNION {entries(key) : key \in dom}] :
            \A key \in dom : c[key] \in entries(key)}

serializeChanges == serializeChangesOf(attributes, oldValues)

(***************************************************************************)
(* Init: a record as a fetch builds it (object_id decoded from the         *)
(* response) or as NewObject builds it (object_id nil); oldValues is empty *)
(***************************************************************************)
InitRecord ==
    /\ \E id \in FetchedValues("object_id") \cup {Nil},
          h \in FetchedValues("hostname"),
          tg \in FetchedValues("tags") :
            attributes = [key \in Keys |->
                            CASE key = "object_id" -> id
                              [] key = "hostname" -> h
                              [] key = "tags" -> tg]
    /\ oldValues = NoAttributes
    /\ deleted = FALSE
    /\ lastOp = NewOp
    /\ settled = attributes
    /\ written = {}

NoDiff == [add |-> <<"-">>, remove |-> <<"-">>]

InitDiffIdle ==
    /\ diffOld = <<>>
    /\ diffCur = <<>>
    /\ diffOut = NoDiff

\* no Commit is waiting in sendRequest; scope is the method that waits, member
\* the number of the record when it is ServerObject.Commit
Idle == [scope |-> "idle", member |-> 0]

\* a call on the collection or on its member number member (0: the collection)
\* and its result: key and value are the arguments of Set, err is "" when the
\* call returned no error, id is the commit identifier it returned, answer
\* the status of the commit response it decoded, sent the number of requests
\* it handed to the transport, failed the (index, object_id) pairs its error
\* names
CollCall(name, key, value, err, id, member, answer, sent, failed) ==
    [key |-> key, value |-> value, err |-> err, id |-> id, op |-> name,
     member |-> member, answer |-> answer, sent |-> sent, failed |-> failed]

\* collOp of a collection nothing was called on yet
NoCall == CollCall("new", "", Nil, "", 0, 0, "", 0, <<>>)

InitCollIdle ==
    /\ objects = <<>>
    /\ collSettled = <<>>
    /\ collOp = NoCall
    /\ wire = <<>>
    /\ call = Idle

\* queryOp of a Query nothing was called on yet.  err is "" when the call
\* returned no error, answer what the transport handed back to the request it
\* sent, count the number it returned or its error carries, found
\* the object_id of the record One returned, fetched the number of requests the
\* call handed to the transport, restrict the projection of that request
NoQueryCall ==
    [err |-> "", op |-> "new", answer |-> "", count |-> 0, found |-> Nil, fetched |-> 0,
     restrict |-> <<>>]

InitQueryIdle ==
    /\ restrictedAttributes = <<>>
    /\ loaded = FALSE
    /\ serverObjects = <<>>
    /\ queryOp = NoQueryCall
    /\ fetches = 0

\* a Filters map (map[string]any): nil, or holding m
NilFilters == [isNil |-> TRUE, m |-> NoAttributes]
MakeFilters(m) == [isNil |-> FALSE, m |-> m]

\* Query{}: the zero value of the struct
ZeroQuery ==
    [restrictedAttributes |-> NilStringSlice, loaded |-> FALSE, serverObjects |-> <<>>,
     filters |-> NilFilters, orderBy |-> ""]

\* a nil error
NoError == <<>>

\* parsed before FromQuery is called
NotParsed == [err |-> NoError, op |-> "new", query |-> ZeroQuery]

InitParseIdle ==
    /\ text = <<>>
    /\ parsed = NotParsed

\* creation when NewObject is not called
InitNewIdle ==
    /\ requests = <<>>
    /\ creation = [err |-> NoError, pc |-> "idle", given |-> NoAttributes,
                   remaining |-> {}, returned |-> <<>>]

\* no heap and no MultiAttr
InitMultiIdle ==
    /\ heap = <<>>
    /\ tags = Nil
    /\ multiOp = Nil

\* shareOp of two collections nothing was called through yet: via is the
\* collection the call went through, err is "" when it returned no error,
\* sent the commit requests it handed to the transport, after the requests
\* of the call before it when that was a Commit through the other collection
\* that returned no error
NoShareCall == [err |-> "", op |-> "new", sent |-> <<>>, via |-> "", after |-> <<>>]
\* the caller holds no slice from All and no pointer from One, no call has
\* panicked, and it has set nothing through either ("one" or "all" in through
\* once it has)
NoRefs == [all |-> <<>>, one |-> 0, panic |-> "", through |-> ""]

InitHolderIdle ==
    /\ colls = [name \in {"A", "B"} |-> <<>>]
    /\ shareOp = NoShareCall
    /\ refs = NoRefs
    /\ queryFilters = NilFilters
    /\ queryOrderBy = ""

Init ==
    /\ InitRecord /\ InitDiffIdle /\ InitCollIdle /\ InitQueryIdle /\ InitParseIdle
    /\ InitNewIdle /\ InitMultiIdle /\ InitHolderIdle

(***************************************************************************)
(* Mutating methods                                                        *)
(***************************************************************************)
\* the value Set stores in oldValues: an element-wise copy in a new []any when
\* toAnySlice gives a non-nil slice, the value itself otherwise
CopyOfOld(old) ==
    LET oldSlice == toAnySlice(old)
    IN  IF oldSlice # NilAnySlice THEN AnySlice(oldSlice.l) ELSE old

\* Set recording the prior value on every write, not only on the first
SetOldValues_Overwrite(attrs, olds, key) ==
    [k \in DOMAIN olds \cup {key} |->
        IF k = key THEN CopyOfOld(attrs[key]) ELSE olds[k]]

SetOldValues(attrs, olds, key) ==
    IF key \in DOMAIN olds THEN olds
    ELSE [k \in DOMAIN olds \cup {key} |->
            IF k = key THEN CopyOfOld(attrs[key]) ELSE olds[k]]

SetAttributes(attrs, key, value) == [attrs EXCEPT ![key] = value]

\* Set that also takes the deletion mark back
Set_Undeletes(key, value) ==
    IF key \notin DOMAIN attributes
    THEN /\ lastOp' = Op("Set", key, value, ErrUnknownAttribute, 0, FALSE, 0)
         /\ UNCHANGED <<attributes, oldValues, deleted, settled, written>>
    ELSE /\ oldValues' = SetOldValues(attributes, oldValues, key)
         /\ attributes' = SetAttributes(attributes, key, value)
         /\ deleted' = FALSE
         /\ lastOp' = Op("Set", key, value, "", 0, key \in DOMAIN oldValues, 0)
         /\ written' = written \cup {key}
         /\ UNCHANGED settled

\* Set without the test that the key exists: the key is created
Set_NoCheck(key, value) ==
    /\ oldValues' = IF key \in DOMAIN oldValues THEN oldValues
                    ELSE [k \in DOMAIN oldValues \cup {key} |->
                            IF k # key THEN oldValues[k]
                            ELSE IF key \in DOMAIN attributes
                                 THEN CopyOfOld(attributes[key]) ELSE Nil]
    /\ attributes' = [k \in DOMAIN attributes \cup {key} |->
                        IF k = key THEN value ELSE attributes[k]]
    /\ lastOp' = Op("Set", key, value, "", 0, key \in DOMAIN oldValues, 0)
    /\ written' = written \cup {key}
    /\ UNCHANGED <<deleted, settled>>

Set(key, value) ==
    IF key \notin DOMAIN attributes
    THEN /\ lastOp' = Op("Set", key, value, ErrUnknownAttribute, 0, FALSE, 0)
         /\ UNCHANGED <<attributes, oldValues, deleted, settled, written>>
    ELSE /\ oldValues' = SetOldValues(attributes, oldValues, key)
         /\ attributes' = SetAttributes(attributes, key, value)
         /\ lastOp' = Op("Set", key, value, "", 0, key \in DOMAIN oldValues, 0)
         /\ written' = written \cup {key}
         /\ UNCHANGED <<deleted, settled>>

\* Delete flipping the flag instead of setting it
Delete_Toggle ==
    /\ deleted' = ~deleted
    /\ lastOp' = Op("Delete", "", Nil, "", 0, FALSE, 0)
    /\ UNCHANGED <<attributes, oldValues, settled, written>>

\* Delete that also forgets the prior values
Delete_DropsPrior ==
    /\ deleted' = TRUE
    /\ oldValues' = NoAttributes
    /\ lastOp' = Op("Delete", "", Nil, "", 0, FALSE, 0)
    /\ UNCHANGED <<attributes, settled, written>>

Delete ==
    /\ deleted' = TRUE
    /\ lastOp' = Op("Delete", "", Nil, "", 0, FALSE, 0)
    /\ UNCHANGED <<attributes, oldValues, settled, written>>

\* Rollback that forgets the prior values without writing them back
RollbackAttributes_NoRestore(attrs, olds) == attrs

RollbackAttributes(attrs, olds) ==
    [key \in DOMAIN attrs |-> IF key \in DOMAIN olds THEN olds[key] ELSE attrs[key]]

Rollback ==
    /\ deleted' = FALSE
    /\ attributes' = RollbackAttributes(attributes, oldValues)
    /\ oldValues' = NoAttributes
    /\ lastOp' = Op("Rollback", "", Nil, "", 0, FALSE, Cardinality(DOMAIN oldValues))
    /\ settled' = attributes'
    /\ written' = {}

\* confirmChanges that handles the deleted flag but keeps oldValues
confirmChanges_KeepsOld(attrs, olds, del) ==
    [attributes |-> IF del THEN [attrs EXCEPT !["object_id"] = Nil] ELSE attrs,
     oldValues |-> olds,
     deleted |-> FALSE]

\* confirmChanges that clears the deleted flag but keeps object_id
confirmChanges_KeepsIdentity(attrs, olds, del) ==
    [attributes |-> attrs, oldValues |-> NoAttributes, deleted |-> FALSE]

\* confirmChanges that writes the prior values back before it forgets them
confirmChanges_RestoresOld(attrs, olds, del) ==
    [attributes |-> IF del THEN [RollbackAttributes(attrs, olds) EXCEPT !["object_id"] = Nil]
                    ELSE RollbackAttributes(attrs, olds),
     oldValues |-> NoAttributes,
     deleted |-> FALSE]

\* confirmChanges, as the new (attributes, oldValues, deleted)
confirmChanges(attrs, olds, del) ==
    [attributes |-> IF del THEN [attrs EXCEPT !["object_id"] = Nil] ELSE attrs,
     oldValues |-> NoAttributes,
     deleted |-> FALSE]

\* what the transport hands back to sendCommit
CommitID == 123
Responses ==
    {[kind |-> "transport error", status |-> "", commit_id |-> 0, message |-> ""],
     [kind |-> "malformed body", status |-> "", commit_id |-> 0, message |-> ""],
     [kind |-> "decoded", status |-> "success", commit_id |-> CommitID, message |-> ""],
     [kind |-> "decoded", status |-> "error", commit_id |-> 0, message |-> "denied"],
     [kind |-> "decoded", status |-> "failure", commit_id |-> 0, message |-> "rejected"]}

\* sendCommit: the commit identifier and the error it returns
sendCommit(resp) ==
    IF resp.kind = "transport error" THEN [err |-> "request failed", id |-> 0]
    ELSE IF resp.kind = "malformed body" THEN [err |-> "failed to decode commit response", id |-> 0]
    ELSE IF resp.status = "error" THEN [err |-> "commit failed: " \o resp.message, id |-> 0]
    ELSE [err |-> "", id |-> resp.commit_id]

\* ServerObject.Commit: one request, then confirmChanges when it succeeded
Commit(resp) ==
    LET result == sendCommit(resp)
        confirmed == confirmChanges(attributes, oldValues, deleted)
    IN  IF result.err # ""
        THEN /\ lastOp' = Op("Commit", "", Nil, result.err, 0, FALSE, 0)
             /\ UNCHANGED <<attributes, oldValues, deleted, settled, written>>
        ELSE /\ attributes' = confirmed.attributes
             /\ oldValues' = confirmed.oldValues
             /\ deleted' = confirmed.deleted
             /\ lastOp' = Op("Commit", "", Nil, "", result.id, FALSE, 0)
             /\ settled' = attributes'
             /\ written' = {}

SetStep ==
    \E key \in Keys \cup {UnknownKey} : \E value \in InputValues(key) :
        Set(key, value) /\ UNCHANGED <<diffVars, collVars, queryVars, parseVars, newVars, multiVars, holderVars>>
DeleteStep == Delete /\ UNCHANGED <<diffVars, collVars, queryVars, parseVars, newVars, multiVars, holderVars>>
RollbackStep == Rollback /\ UNCHANGED <<diffVars, collVars, queryVars, parseVars, newVars, multiVars, holderVars>>
CommitStep == \E resp \in Responses : Commit(resp) /\ UNCHANGED <<diffVars, collVars, queryVars, parseVars, newVars, multiVars, holderVars>>

Next == SetStep \/ DeleteStep \/ RollbackStep \/ CommitStep

Spec == Init /\ [][Next]_vars

(***************************************************************************)
(* SpecDiff: sliceDiff on every pair of sequences up to MaxDiffLen over    *)
(* DiffElems, called directly and through Set and serializeChanges on a    *)
(* fetched record whose tags are the first sequence                        *)
(***************************************************************************)
DiffLists == SeqsUpTo(DiffElems, MaxDiffLen)

InitDiff ==
    /\ diffOld \in DiffLists
    /\ diffCur \in DiffLists
    /\ diffOut = NoDiff
    /\ attributes = [key \in Keys |->
                        CASE key = "object_id" -> Float64(1)
                          [] key = "hostname" -> Str("h1")
                          [] key = "tags" -> AnySlice(diffOld)]
    /\ oldValues = NoAttributes
    /\ deleted = FALSE
    /\ lastOp = NewOp
    /\ settled = attributes
    /\ written = {}
    /\ InitCollIdle
    /\ InitQueryIdle
    /\ InitParseIdle
    /\ InitNewIdle
    /\ InitMultiIdle
    /\ InitHolderIdle

\* the call sliceDiff(diffOld, diffCur)
DiffCall ==
    /\ diffOut = NoDiff
    /\ diffOut' \in sliceDiff(diffOld, diffCur)
    /\ UNCHANGED <<diffOld, diffCur>>
    /\ UNCHANGED <<recordVars, collVars, queryVars, parseVars, newVars, multiVars, holderVars>>

\* Set("tags", diffCur), handed over as a []any or as a []string
DiffSet ==
    /\ lastOp.op = "new"
    /\ \E value \in {AnySlice(diffCur), StringSlice(diffCur)} : Set("tags", value)
    /\ UNCHANGED <<diffVars, collVars, queryVars, parseVars, newVars, multiVars, holderVars>>

NextDiff == DiffCall \/ DiffSet

SpecDiff == InitDiff /\ [][NextDiff]_vars

(***************************************************************************)
(* SpecColl: a ServerObjects of up to MaxMembers records, some fetched with *)
(* the attribute memory, some fetched without it, some not created on the  *)
(* server yet.  Commit is two steps, before and after the one call of      *)
(* sendRequest it waits in; every other call is one step.                  *)
(***************************************************************************)
\* Get: the attribute, a float64 converted to int; nil when it is not there
Get(attrs, attribute) ==
    IF attribute \in DOMAIN attrs
    THEN IF attrs[attribute].t = "float64" THEN GoInt(attrs[attribute].n) ELSE attrs[attribute]
    ELSE Nil

\* &ServerObject{attributes: attrs, oldValues: Attributes{}}
NewServerObject(attrs) == [attributes |-> attrs, oldValues |-> NoAttributes, deleted |-> FALSE]

\* the records member number i of a collection can start as
MemberChoices(i) ==
    {NewServerObject([key \in {"object_id", "hostname", "memory"} |->
        CASE key = "object_id" -> Float64(i)
          [] key = "hostname" -> Str("h1")
          [] key = "memory" -> Float64(16)]),
     NewServerObject([key \in {"object_id", "hostname"} |->
        CASE key = "object_id" -> Float64(i)
          [] key = "hostname" -> Str("h1")]),
     NewServerObject([key \in {"object_id", "hostname", "memory"} |->
        CASE key = "object_id" -> Nil
          [] key = "hostname" -> Str("h1")
          [] key = "memory" -> Float64(16)])}

RECURSIVE Collections(_)
Collections(size) ==
    IF size = 0 THEN {<<>>}
    ELSE {Append(objs, obj) : objs \in Collections(size - 1), obj \in MemberChoices(size)}

\* the arguments of ServerObjects.Set
CollSetKeys == {"memory"}
CollSetValues == {GoInt(32)}

InitColl ==
    /\ \E size \in 0..MaxMembers : objects \in Collections(size)
    /\ collSettled = [i \in DOMAIN objects |-> objects[i].attributes]
    /\ collOp = NoCall
    /\ wire = <<>>
    /\ call = Idle
    /\ attributes = [key \in Keys |->
                        CASE key = "object_id" -> Float64(1)
                          [] key = "hostname" -> Str("h1")
                          [] key = "tags" -> Nil]
    /\ oldValues = NoAttributes
    /\ deleted = FALSE
    /\ lastOp = NewOp
    /\ settled = attributes
    /\ written = {}
    /\ InitDiffIdle
    /\ InitQueryIdle
    /\ InitParseIdle
    /\ InitNewIdle
    /\ InitMultiIdle
    /\ InitHolderIdle

\* ServerObject.Set on a member: the member afterwards
MemberSet(obj, key, value) ==
    IF key \notin DOMAIN obj.attributes THEN obj
    ELSE [attributes |-> SetAttributes(obj.attributes, key, value),
          oldValues |-> SetOldValues(obj.attributes, obj.oldValues, key),
          deleted |-> obj.deleted]

\* the error ServerObject.Set returns on a member
MemberSetErr(obj, key) == IF key \notin DOMAIN obj.attributes THEN ErrUnknownAttribute ELSE ""

\* ServerObject.Delete and ServerObject.Rollback on a member
MemberDelete(obj) == [attributes |-> obj.attributes, oldValues |-> obj.oldValues, deleted |-> TRUE]
MemberRollback(obj) ==
    [attributes |-> RollbackAttributes(obj.attributes, obj.oldValues),
     oldValues |-> NoAttributes,
     deleted |-> FALSE]

\* the errors ServerObjects.Set collects over the members 1..size, in order:
\* the index Go counts from 0 and Get("object_id") of each failing member
RECURSIVE SetErrors(_, _, _)
SetErrors(objs, key, size) ==
    IF size = 0 THEN <<>>
    ELSE LET rest == SetErrors(objs, key, size - 1)
         IN  IF MemberSetErr(objs[size], key) # ""
             THEN Append(rest, <<size - 1, Get(objs[size].attributes, "object_id")>>)
             ELSE rest

\* ServerObjects.Set returning at the first member whose Set fails
CollSet_ShortCircuit(key, value) ==
    LET failing == {i \in DOMAIN objects : MemberSetErr(objects[i], key) # ""}
        first == IF failing = {} THEN Len(objects) + 1
                 ELSE CHOOSE i \in failing : \A j \in failing : i <= j
        failed == SetErrors(objects, key, IF failing = {} THEN 0 ELSE first)
    IN  /\ call = Idle
        /\ objects' = [i \in DOMAIN objects |->
                          IF i < first THEN MemberSet(objects[i], key, value) ELSE objects[i]]
        /\ collOp' = CollCall("Set", key, value,
                               IF failed = <<>> THEN "" ELSE ErrUnknownAttribute,
                               0, 0, "", 0, failed)
        /\ UNCHANGED <<collSettled, wire, call>>

\* ServerObjects.Set
CollSet(key, value) ==
    LET failed == SetErrors(objects, key, Len(objects))
    IN  /\ call = Idle
        /\ objects' = [i \in DOMAIN objects |-> MemberSet(objects[i], key, value)]
        /\ collOp' = CollCall("Set", key, value,
                               IF failed = <<>> THEN "" ELSE ErrUnknownAttribute,
                               0, 0, "", 0, failed)
        /\ UNCHANGED <<collSettled, wire, call>>

\* ServerObjects.Delete
CollDelete ==
    /\ call = Idle
    /\ objects' = [i \in DOMAIN objects |-> MemberDelete(objects[i])]
    /\ collOp' = CollCall("Delete", "", Nil, "", 0, 0, "", 0, <<>>)
    /\ UNCHANGED <<collSettled, wire, call>>

\* ServerObjects.Rollback passing over the members marked deleted
CollRollback_SkipsDeleted ==
    /\ call = Idle
    /\ objects' = [i \in DOMAIN objects |->
                      IF objects[i].deleted THEN objects[i] ELSE MemberRollback(objects[i])]
    /\ collSettled' = [i \in DOMAIN objects |->
                          IF objects[i].deleted THEN collSettled[i] ELSE objects'[i].attributes]
    /\ collOp' = CollCall("Rollback", "", Nil, "", 0, 0, "", 0, <<>>)
    /\ UNCHANGED <<wire, call>>

\* ServerObjects.Rollback
CollRollback ==
    /\ call = Idle
    /\ objects' = [i \in DOMAIN objects |-> MemberRollback(objects[i])]
    /\ collSettled' = [i \in DOMAIN objects |-> objects'[i].attributes]
    /\ collOp' = CollCall("Rollback", "", Nil, "", 0, 0, "", 0, <<>>)
    /\ UNCHANGED <<wire, call>>

\* ServerObject.Delete on one member
MemberDeleteStep(i) ==
    /\ call = Idle
    /\ objects' = [objects EXCEPT ![i] = MemberDelete(@)]
    /\ collOp' = CollCall("ServerObject.Delete", "", Nil, "", 0, i, "", 0, <<>>)
    /\ UNCHANGED <<collSettled, wire, call>>

\* commitRequest{Created: []map[string]any{}, Changed: ..., Deleted: []any{}}
EmptyCommit == [deleted |-> <<>>, changed |-> <<>>, created |-> <<>>]

\* buildCommit that lists a deleted record with pending changes as changed too
RECURSIVE buildCommit_DeletedAlsoChanged(_)
buildCommit_DeletedAlsoChanged(objs) ==
    IF objs = <<>> THEN {EmptyCommit}
    ELSE LET obj == objs[Len(objs)]
             before == buildCommit_DeletedAlsoChanged(SubSeq(objs, 1, Len(objs) - 1))
             state == CommitStateOf(obj.attributes, obj.oldValues, obj.deleted)
         IN  CASE state = StateCreated ->
                    {[commit EXCEPT !.created = Append(@, obj.attributes)] : commit \in before}
               [] state = StateChanged ->
                    {[commit EXCEPT !.changed = Append(@, changes)] :
                        commit \in before,
                        changes \in serializeChangesOf(obj.attributes, obj.oldValues)}
               [] state = StateDeleted ->
                    {[commit EXCEPT
                        !.deleted = Append(@, Get(obj.attributes, "object_id")),
                        !.changed = IF ChangedKeys(obj.attributes, obj.oldValues) = {} THEN @
                                    ELSE Append(@, changes)] :
                        commit \in before,
                        changes \in serializeChangesOf(obj.attributes, obj.oldValues)}
               [] OTHER -> before

\* buildCommit: every request the loop over the objects can build (the order
\* of add and remove inside an entry of serializeChanges is not fixed)
RECURSIVE buildCommit(_)
buildCommit(objs) ==
    IF objs = <<>> THEN {EmptyCommit}
    ELSE LET obj == objs[Len(objs)]
             before == buildCommit(SubSeq(objs, 1, Len(objs) - 1))
             state == CommitStateOf(obj.attributes, obj.oldValues, obj.deleted)
         IN  CASE state = StateCreated ->
                    {[commit EXCEPT !.created = Append(@, obj.attributes)] : commit \in before}
               [] state = StateChanged ->
                    {[commit EXCEPT !.changed = Append(@, changes)] :
                        commit \in before,
                        changes \in serializeChangesOf(obj.attributes, obj.oldValues)}
               [] state = StateDeleted ->
                    {[commit EXCEPT !.deleted = Append(@, Get(obj.attributes, "object_id"))] :
                        commit \in before}
               [] OTHER -> before

\* confirmChanges on the first member only
ConfirmAll_FirstOnly(objs) ==
    [i \in DOMAIN objs |->
        IF i = 1 THEN confirmChanges(objs[i].attributes, objs[i].oldValues, objs[i].deleted)
        ELSE objs[i]]

\* the members ServerObjects.Commit calls confirmChanges on
ConfirmAll(objs) ==
    [i \in DOMAIN objs |-> confirmChanges(objs[i].attributes, objs[i].oldValues, objs[i].deleted)]

\* ServerObjects.Commit confirming the members before it calls sendRequest
CollCommitSend_ConfirmsFirst ==
    /\ call = Idle
    /\ \E commit \in buildCommit(objects) : wire' = Append(wire, commit)
    /\ call' = [scope |-> "ServerObjects.Commit", member |-> 0]
    /\ objects' = ConfirmAll(objects)
    /\ UNCHANGED <<collSettled, collOp>>

\* ServerObjects.Commit up to its call of sendRequest
CollCommitSend ==
    /\ call = Idle
    /\ \E commit \in buildCommit(objects) : wire' = Append(wire, commit)
    /\ call' = [scope |-> "ServerObjects.Commit", member |-> 0]
    /\ UNCHANGED <<objects, collSettled, collOp>>

\* ServerObjects.Commit returning the commit identifier without confirming
\* the members
CollCommitReturn_NoConfirm(resp) ==
    LET result == sendCommit(resp)
    IN  /\ call.scope = "ServerObjects.Commit"
        /\ wire' = <<>>
        /\ call' = Idle
        /\ collOp' = CollCall("Commit", "", Nil, result.err, result.id, 0,
                               resp.status, Len(wire), <<>>)
        /\ UNCHANGED <<objects, collSettled>>

\* ServerObjects.Commit from the return of sendRequest on
CollCommitReturn(resp) ==
    LET result == sendCommit(resp)
    IN  /\ call.scope = "ServerObjects.Commit"
        /\ wire' = <<>>
        /\ call' = Idle
        /\ collOp' = CollCall("Commit", "", Nil, result.err, result.id, 0,
                               resp.status, Len(wire), <<>>)
        /\ IF result.err # ""
           THEN UNCHANGED <<objects, collSettled>>
           ELSE /\ objects' = ConfirmAll(objects)
                /\ collSettled' = [i \in DOMAIN objects |-> objects'[i].attributes]

\* ServerObject.Commit of one member up to its call of sendRequest
MemberCommitSend(i) ==
    /\ call = Idle
    /\ \E commit \in buildCommit(<<objects[i]>>) : wire' = Append(wire, commit)
    /\ call' = [scope |-> "ServerObject.Commit", member |-> i]
    /\ UNCHANGED <<objects, collSettled, collOp>>

\* ServerObject.Commit of one member from the return of sendRequest on
MemberCommitReturn(resp) ==
    LET result == sendCommit(resp)
        i == call.member
        obj == objects[i]
    IN  /\ call.scope = "ServerObject.Commit"
        /\ wire' = <<>>
        /\ call' = Idle
        /\ collOp' = CollCall("ServerObject.Commit", "", Nil, result.err, result.id, i,
                               resp.status, Len(wire), <<>>)
        /\ IF result.err # ""
           THEN UNCHANGED <<objects, collSettled>>
           ELSE /\ objects' = [objects EXCEPT
                                 ![i] = confirmChanges(obj.attributes, obj.oldValues, obj.deleted)]
                /\ collSettled' = [collSettled EXCEPT ![i] = objects'[i].attributes]

CollSetStep ==
    \E key \in CollSetKeys, value \in CollSetValues :
        CollSet(key, value) /\ UNCHANGED <<recordVars, diffVars, queryVars, parseVars, newVars, multiVars, holderVars>>
CollDeleteStep == CollDelete /\ UNCHANGED <<recordVars, diffVars, queryVars, parseVars, newVars, multiVars, holderVars>>
CollRollbackStep == CollRollback /\ UNCHANGED <<recordVars, diffVars, queryVars, parseVars, newVars, multiVars, holderVars>>
CollCommitSendStep == CollCommitSend /\ UNCHANGED <<recordVars, diffVars, queryVars, parseVars, newVars, multiVars, holderVars>>
CollCommitReturnStep ==
    \E resp \in Responses : CollCommitReturn(resp) /\ UNCHANGED <<recordVars, diffVars, queryVars, parseVars, newVars, multiVars, holderVars>>
MemberStep ==
    \E i \in DOMAIN objects :
        (MemberDeleteStep(i) \/ MemberCommitSend(i)) /\ UNCHANGED <<recordVars, diffVars, queryVars, parseVars, newVars, multiVars, holderVars>>
MemberCommitReturnStep ==
    \E resp \in Responses : MemberCommitReturn(resp) /\ UNCHANGED <<recordVars, diffVars, queryVars, parseVars, newVars, multiVars, holderVars>>

NextColl ==
    \/ CollSetStep
    \/ CollDeleteStep
    \/ CollRollbackStep
    \/ CollCommitSendStep
    \/ CollCommitReturnStep
    \/ MemberStep
    \/ MemberCommitReturnStep

SpecColl == InitColl /\ [][NextColl]_vars

(***************************************************************************)
(* SpecQuery: one Query from NewQuery on, under SetAttributes,             *)
(* AddAttributes, Count, All and One, with every answer of the transport   *)
(***************************************************************************)
AttrNames == {"object_id", "hostname", "memory"}
AttrLists == SeqsUpTo(AttrNames, MaxAttrs)

\* the numbers of records in a query response
ResultSizes == {0, 1, 2}

\* what the transport hands back to load: an error, a body that does not
\* decode, or a queryResponse with its Result
QueryResponses ==
    {[kind |-> "transport error", result |-> <<>>],
     [kind |-> "malformed body", result |-> <<>>]}
    \cup {[kind |-> "decoded",
           result |-> [i \in 1..size |->
                        [key \in {"object_id", "hostname"} |->
                            IF key = "object_id" THEN Float64(i) ELSE Str("h1")]]] :
          size \in ResultSizes}

ErrNoResults == "no server objects found"
ErrMultipleResults == "expected exactly one server object, got multiple"
ErrQuerying == "querying /dataset/query"
ErrDecoding == "decoding query response"

\* a call of Count, All or One and its result
QueryCall(name, err, answer, count, found, fetched, restrict) ==
    [err |-> err, op |-> name, answer |-> answer, count |-> count, found |-> found,
     fetched |-> fetched, restrict |-> restrict]

\* NewQuery
InitQuery ==
    /\ restrictedAttributes = <<"object_id", "hostname">>
    /\ loaded = FALSE
    /\ serverObjects = <<>>
    /\ queryOp = NoQueryCall
    /\ fetches = 0
    /\ attributes = [key \in Keys |->
                        CASE key = "object_id" -> Float64(1)
                          [] key = "hostname" -> Str("h1")
                          [] key = "tags" -> Nil]
    /\ oldValues = NoAttributes
    /\ deleted = FALSE
    /\ lastOp = NewOp
    /\ settled = attributes
    /\ written = {}
    /\ InitDiffIdle
    /\ InitCollIdle
    /\ InitParseIdle
    /\ InitNewIdle
    /\ InitMultiIdle
    /\ InitHolderIdle

\* Query.SetAttributes that drops the cached result set
QuerySetAttributes_Reloads(attrs) ==
    /\ restrictedAttributes' = attrs
    /\ loaded' = FALSE
    /\ serverObjects' = <<>>
    /\ UNCHANGED <<queryOp, fetches>>

\* Query.SetAttributes
QuerySetAttributes(attrs) ==
    /\ restrictedAttributes' = attrs
    /\ UNCHANGED <<loaded, serverObjects, queryOp, fetches>>

\* Query.AddAttributes
QueryAddAttributes(attrs) ==
    /\ Len(restrictedAttributes) + Len(attrs) <= MaxAttrs
    /\ restrictedAttributes' = restrictedAttributes \o attrs
    /\ UNCHANGED <<loaded, serverObjects, queryOp, fetches>>

\* the projection load always appends object_id to
Restricted_AlwaysAppends(attrs) == Append(attrs, "object_id")

\* the projection load leaves in restrictedAttributes and sends
Restricted(attrs) ==
    IF "object_id" \in {attrs[i] : i \in DOMAIN attrs} THEN attrs ELSE Append(attrs, "object_id")

\* load that fetches on every call
load_NoCache(resp) ==
    LET restrict == Restricted(restrictedAttributes)
    IN  [restrictedAttributes |-> restrict,
         loaded |-> loaded \/ resp.kind = "decoded",
         serverObjects |-> IF resp.kind = "decoded"
                           THEN [i \in DOMAIN resp.result |-> NewServerObject(resp.result[i])]
                           ELSE serverObjects,
         err |-> IF resp.kind = "transport error" THEN ErrQuerying
                 ELSE IF resp.kind = "malformed body" THEN ErrDecoding ELSE "",
         answer |-> resp.kind,
         fetched |-> 1,
         restrict |-> restrict]

\* load taking a body that does not decode for a response without records
load_DecodeAsEmpty(resp) ==
    LET restrict == Restricted(restrictedAttributes)
    IN  IF loaded
        THEN [restrictedAttributes |-> restrictedAttributes, loaded |-> TRUE,
              serverObjects |-> serverObjects, err |-> "", answer |-> "", fetched |-> 0, restrict |-> <<>>]
        ELSE IF resp.kind = "transport error"
        THEN [restrictedAttributes |-> restrict, loaded |-> FALSE,
              serverObjects |-> serverObjects, err |-> ErrQuerying, answer |-> resp.kind,
              fetched |-> 1,
              restrict |-> restrict]
        ELSE [restrictedAttributes |-> restrict, loaded |-> TRUE,
              serverObjects |-> [i \in DOMAIN resp.result |-> NewServerObject(resp.result[i])],
              err |-> "", answer |-> resp.kind, fetched |-> 1, restrict |-> restrict]

\* load that marks the Query loaded when the fetch fails as well
load_CachesFailure(resp) ==
    LET restrict == Restricted(restrictedAttributes)
    IN  IF loaded
        THEN [restrictedAttributes |-> restrictedAttributes, loaded |-> TRUE,
              serverObjects |-> serverObjects, err |-> "", answer |-> "", fetched |-> 0, restrict |-> <<>>]
        ELSE IF resp.kind = "transport error"
        THEN [restrictedAttributes |-> restrict, loaded |-> TRUE,
              serverObjects |-> serverObjects, err |-> ErrQuerying, answer |-> resp.kind,
              fetched |-> 1,
              restrict |-> restrict]
        ELSE IF resp.kind = "malformed body"
        THEN [restrictedAttributes |-> restrict, loaded |-> TRUE,
              serverObjects |-> serverObjects, err |-> ErrDecoding, answer |-> resp.kind,
              fetched |-> 1,
              restrict |-> restrict]
        ELSE [restrictedAttributes |-> restrict, loaded |-> TRUE,
              serverObjects |-> [i \in DOMAIN resp.result |-> NewServerObject(resp.result[i])],
              err |-> "", answer |-> resp.kind, fetched |-> 1, restrict |-> restrict]

\* load: the error it returns, the number of requests it sent and the
\* projection of the request, and the fields of the Query afterwards
load(resp) ==
    LET restrict == Restricted(restrictedAttributes)
    IN  IF loaded
        THEN [restrictedAttributes |-> restrictedAttributes, loaded |-> TRUE,
              serverObjects |-> serverObjects, err |-> "", answer |-> "", fetched |-> 0, restrict |-> <<>>]
        ELSE IF resp.kind = "transport error"
        THEN [restrictedAttributes |-> restrict, loaded |-> FALSE,
              serverObjects |-> serverObjects, err |-> ErrQuerying, answer |-> resp.kind,
              fetched |-> 1,
              restrict |-> restrict]
        ELSE IF resp.kind = "malformed body"
        THEN [restrictedAttributes |-> restrict, loaded |-> FALSE,
              serverObjects |-> serverObjects, err |-> ErrDecoding, answer |-> resp.kind,
              fetched |-> 1,
              restrict |-> restrict]
        ELSE [restrictedAttributes |-> restrict, loaded |-> TRUE,
              serverObjects |-> [i \in DOMAIN resp.result |-> NewServerObject(resp.result[i])],
              err |-> "", answer |-> resp.kind, fetched |-> 1, restrict |-> restrict]

\* what load does to the Query, for the three callers
Loads(done) ==
    /\ loaded \/ fetches < MaxFetches
    /\ restrictedAttributes' = done.restrictedAttributes
    /\ loaded' = done.loaded
    /\ serverObjects' = done.serverObjects
    /\ fetches' = fetches + done.fetched

\* Query.Count
QueryCount(resp) ==
    LET done == load(resp)
    IN  /\ Loads(done)
        /\ queryOp' = QueryCall("Count", done.err, done.answer,
                                 IF done.err # "" THEN 0 ELSE Len(done.serverObjects),
                                 Nil, done.fetched, done.restrict)

\* Query.All
QueryAll(resp) ==
    LET done == load(resp)
    IN  /\ Loads(done)
        /\ queryOp' = QueryCall("All", done.err, done.answer,
                                 IF done.err # "" THEN 0 ELSE Len(done.serverObjects),
                                 Nil, done.fetched, done.restrict)

\* Query.One taking the first record whenever there is one
QueryOne_First(resp) ==
    LET done == load(resp)
        size == Len(done.serverObjects)
    IN  /\ Loads(done)
        /\ queryOp' =
              IF done.err # ""
              THEN QueryCall("One", done.err, done.answer, 0, Nil, done.fetched, done.restrict)
              ELSE IF size >= 1
              THEN QueryCall("One", "", done.answer, 1, done.serverObjects[1].attributes["object_id"],
                             done.fetched, done.restrict)
              ELSE QueryCall("One", ErrNoResults, done.answer, 0, Nil, done.fetched, done.restrict)

\* Query.One
QueryOne(resp) ==
    LET done == load(resp)
        size == Len(done.serverObjects)
    IN  /\ Loads(done)
        /\ queryOp' =
              IF done.err # ""
              THEN QueryCall("One", done.err, done.answer, 0, Nil, done.fetched, done.restrict)
              ELSE IF size = 1
              THEN QueryCall("One", "", done.answer, 1, done.serverObjects[1].attributes["object_id"],
                             done.fetched, done.restrict)
              ELSE IF size = 0
              THEN QueryCall("One", ErrNoResults, done.answer, 0, Nil, done.fetched, done.restrict)
              ELSE QueryCall("One", ErrMultipleResults, done.answer, size, Nil, done.fetched, done.restrict)

QuerySetAttributesStep ==
    \E attrs \in AttrLists :
        QuerySetAttributes(attrs) /\ UNCHANGED <<recordVars, diffVars, collVars, parseVars, newVars, multiVars, holderVars>>
QueryAddAttributesStep ==
    \E attrs \in AttrLists \ {<<>>} :
        QueryAddAttributes(attrs) /\ UNCHANGED <<recordVars, diffVars, collVars, parseVars, newVars, multiVars, holderVars>>
QueryCountStep ==
    \E resp \in QueryResponses : QueryCount(resp) /\ UNCHANGED <<recordVars, diffVars, collVars, parseVars, newVars, multiVars, holderVars>>
QueryAllStep ==
    \E resp \in QueryResponses : QueryAll(resp) /\ UNCHANGED <<recordVars, diffVars, collVars, parseVars, newVars, multiVars, holderVars>>
QueryOneStep ==
    \E resp \in QueryResponses : QueryOne(resp) /\ UNCHANGED <<recordVars, diffVars, collVars, parseVars, newVars, multiVars, holderVars>>

NextQuery ==
    \/ QuerySetAttributesStep
    \/ QueryAddAttributesStep
    \/ QueryCountStep
    \/ QueryAllStep
    \/ QueryOneStep

SpecQuery == InitQuery /\ [][NextQuery]_vars

(***************************************************************************)
(* SpecParse: FromQuery on a query text.  A text is the sequence of its    *)
(* tokens: a name or literal, "=", "(", ")" or ",".  The texts are the     *)
(* terms field=expression over the filter names below, whole, cut short    *)
(* after a token, or followed by one more ")".                             *)
(***************************************************************************)
\* the names a text calls and the literal it holds
FilterNames == {"not", "empty"}
Literals == {"x"}
FieldNames == {"hostname"}

\* Filter{filterType: value}
createFilter(filterType, value) == [t |-> "Filter", s |-> filterType, n |-> 0, l |-> <<value>>]
\* Empty(), had it handed createFilter an empty list of operands
Empty_NoOperands == createFilter("Empty", AnySlice(<<>>))
\* Empty(): createFilter("Empty", nil)
Empty == createFilter("Empty", Nil)
Not(filter) == createFilter("Not", filter)
NotEmpty == Not(Empty)

\* the registry of filter names, keyed by their lower-case spelling
allFilters == [name \in FilterNames |-> IF name = "not" THEN "Not" ELSE "Empty"]

\* an expression of the query language: a literal, or a call of a name on
\* no argument, on one expression, or on an expression and a literal
RECURSIVE Expressions(_)
Expressions(depth) ==
    LET literals == {[call |-> FALSE, name |-> lit, args |-> <<>>] : lit \in Literals}
    IN  IF depth = 0 THEN literals
        ELSE LET inner == Expressions(depth - 1)
                 lists == {<<>>} \cup {<<e>> : e \in inner}
                             \cup {<<e, lit>> : e \in inner, lit \in literals}
             IN  literals \cup {[call |-> TRUE, name |-> f, args |-> a] :
                                   f \in FilterNames, a \in lists}

\* the tokens of an expression as a caller writes it
RECURSIVE Tokens(_)
Tokens(e) ==
    IF ~e.call THEN <<e.name>>
    ELSE LET n == Len(e.args)
         IN  <<e.name, "(">>
                \o (IF n = 0 THEN <<>>
                    ELSE IF n = 1 THEN Tokens(e.args[1])
                    ELSE Tokens(e.args[1]) \o <<",">> \o Tokens(e.args[2]))
                \o <<")">>

\* the expression whole, cut short inside its call, or with one ")" too many
Writings(e) ==
    LET whole == Tokens(e)
    IN  {whole, whole \o <<")">>} \cup {SubSeq(whole, 1, k) : k \in 2..(Len(whole) - 1)}

Texts ==
    {field \o <<"=">> \o w :
        field \in {<<>>} \cup {<<f>> : f \in FieldNames},
        w \in UNION {Writings(e) : e \in Expressions(MaxDepth)}}

ErrUnmatchedOpen == "unmatched ( found"
ErrUnmatchedClose == "unmatched ) found"
ErrEmptyField == "empty field name"

\* the depth counter over the tokens from position i on: the error of the
\* first ")" met at depth 0, or of the end of the text at a depth above 0
RECURSIVE checkDepth(_, _, _)
checkDepth(q, i, depth) ==
    IF i > Len(q) THEN (IF depth > 0 THEN ErrUnmatchedOpen ELSE "")
    ELSE IF q[i] = "(" THEN checkDepth(q, i + 1, depth + 1)
    ELSE IF q[i] = ")"
         THEN (IF depth = 0 THEN ErrUnmatchedClose ELSE checkDepth(q, i + 1, depth - 1))
    ELSE checkDepth(q, i + 1, depth)

\* the arguments of a call: the tokens between its parentheses, split at the
\* commas of depth 0.  done are the arguments read, cur the one being read
RECURSIVE splitArguments(_, _, _, _, _)
splitArguments(q, i, depth, done, cur) ==
    IF i > Len(q) THEN (IF cur = <<>> /\ done = <<>> THEN <<>> ELSE Append(done, cur))
    ELSE IF q[i] = "," /\ depth = 0 THEN splitArguments(q, i + 1, depth, Append(done, cur), <<>>)
    ELSE splitArguments(q, i + 1,
                        depth + (IF q[i] = "(" THEN 1 ELSE IF q[i] = ")" THEN -1 ELSE 0),
                        done, Append(cur, q[i]))

\* the name of a call as the Filter holds it: the registry's spelling of a
\* registered name, the name as written otherwise
filterName(name) == IF name \in DOMAIN allFilters THEN allFilters[name] ELSE name

\* an expression of balanced tokens: name(arguments) is the Filter of the
\* name on no operand, on its one argument, or on the list of its
\* arguments; a bare literal stands for itself
RECURSIVE parseExpression(_)
parseExpression(q) ==
    IF Len(q) >= 3 /\ q[2] = "(" /\ q[Len(q)] = ")"
    THEN LET args == splitArguments(SubSeq(q, 3, Len(q) - 1), 1, 0, <<>>, <<>>)
             operands == [i \in 1..Len(args) |-> parseExpression(args[i])]
         IN  createFilter(filterName(q[1]),
                          IF Len(args) = 0 THEN AnySlice(<<>>)
                          ELSE IF Len(args) = 1 THEN operands[1]
                          ELSE AnySlice(operands))
    ELSE IF q = <<>> THEN Str("") ELSE Str(q[1])

\* the tokens before the first "=" of a term and those after it
RECURSIVE fieldEnd(_, _)
fieldEnd(q, i) == IF i > Len(q) \/ q[i] = "=" THEN i ELSE fieldEnd(q, i + 1)

\* ParseQuery: the Filters of the text and "", or no Filters and the error
ParseQuery(query) ==
    LET eq == fieldEnd(query, 1)
        depthErr == checkDepth(query, 1, 0)
    IN  IF eq = 1 THEN [err |-> ErrEmptyField, filters |-> NilFilters]
        ELSE IF depthErr # "" THEN [err |-> depthErr, filters |-> NilFilters]
        ELSE [err |-> "",
              filters |-> MakeFilters([f \in {query[1]} |->
                             parseExpression(SubSeq(query, eq + 1, Len(query)))])]

\* NewQuery
NewQuery(filters) ==
    [restrictedAttributes |-> StringSlice(<<"object_id", "hostname">>), loaded |-> FALSE,
     serverObjects |-> <<>>, filters |-> filters, orderBy |-> ""]

\* FromQuery, had it built a Query around what was parsed before the error
FromQuery_KeepsFilters(query) ==
    LET r == ParseQuery(query)
    IN  IF r.err # ""
        THEN [err |-> <<"parsing query", r.err>>, query |-> NewQuery(MakeFilters(NoAttributes))]
        ELSE [err |-> NoError, query |-> NewQuery(r.filters)]

\* FromQuery: Query{} and the parser's error wrapped, or NewQuery(filters)
FromQuery(query) ==
    LET r == ParseQuery(query)
    IN  IF r.err # ""
        THEN [err |-> <<"parsing query", r.err>>, query |-> ZeroQuery]
        ELSE [err |-> NoError, query |-> NewQuery(r.filters)]

InitParse ==
    /\ text \in Texts
    /\ parsed = NotParsed
    /\ attributes = [key \in Keys |->
                        CASE key = "object_id" -> Float64(1)
                          [] key = "hostname" -> Str("h1")
                          [] key = "tags" -> Nil]
    /\ oldValues = NoAttributes
    /\ deleted = FALSE
    /\ lastOp = NewOp
    /\ settled = attributes
    /\ written = {}
    /\ InitDiffIdle
    /\ InitCollIdle
    /\ InitQueryIdle
    /\ InitNewIdle
    /\ InitMultiIdle
    /\ InitHolderIdle

FromQueryStep ==
    /\ parsed.op = "new"
    /\ LET r == FromQuery(text)
       IN  parsed' = [err |-> r.err, op |-> "FromQuery", query |-> r.query]
    /\ UNCHANGED text
    /\ UNCHANGED <<recordVars, diffVars, collVars, queryVars, newVars, multiVars, holderVars>>

NextParse == FromQueryStep

SpecParse == InitParse /\ [][NextParse]_vars

(***************************************************************************)
(* SpecNew: one call of NewObject.  The record it builds is the            *)
(* ServerObject of the record variables, the Query it asks again the one   *)
(* of the query variables; the call is cut at each sendRequest, where it   *)
(* waits for the transport.                                                *)
(***************************************************************************)
\* the attributes a caller hands to NewObject
GivenKeys == {"hostname", "environment", "nonexistent_field"}
GivenAttributes ==
    {[key \in keys |-> IF key = "hostname" THEN Str(host) ELSE Str("dev")] :
        keys \in SUBSET GivenKeys, host \in {"h1", "h2"}}

\* what the transport hands back to the new_object request: an error, a body
\* that does not decode, or the attributes of the servertype with their defaults
NewObjectResponses ==
    {[kind |-> "transport error", result |-> NoAttributes],
     [kind |-> "malformed body", result |-> NoAttributes]}
    \cup {[kind |-> "decoded", result |-> [key \in keys |-> Str("")]] :
            keys \in {{"hostname"}, {"hostname", "environment"}}}

InitNew ==
    /\ requests = <<>>
    /\ \E given \in GivenAttributes :
          creation = [err |-> NoError, pc |-> "start", given |-> given,
                      remaining |-> {}, returned |-> <<>>]
    /\ attributes = NoAttributes
    /\ oldValues = NoAttributes
    /\ deleted = FALSE
    /\ lastOp = NewOp
    /\ settled = attributes
    /\ written = {}
    /\ restrictedAttributes = <<"object_id", "hostname">>
    /\ loaded = FALSE
    /\ serverObjects = <<>>
    /\ queryOp = NoQueryCall
    /\ fetches = 0
    /\ InitDiffIdle
    /\ InitCollIdle
    /\ InitParseIdle
    /\ InitMultiIdle
    /\ InitHolderIdle

\* NewObject returns (nil, err)
NewObjectFails(err) == creation' = [creation EXCEPT !.pc = "done", !.err = err]

\* NewObject sending its first request whatever the caller's attributes are
NewObjectCall_NoHostnameTest ==
    /\ creation.pc = "start"
    /\ creation' = [creation EXCEPT !.pc = "new_object"]
    /\ requests' = Append(requests, "new_object")
    /\ UNCHANGED <<recordVars, queryVars>>

\* NewObject up to its first sendRequest: the test for hostname
NewObjectCall ==
    /\ creation.pc = "start"
    /\ IF "hostname" \notin DOMAIN creation.given
       THEN /\ NewObjectFails(<<"attributes must include", "hostname", ErrUnknownAttribute>>)
            /\ UNCHANGED requests
       ELSE /\ creation' = [creation EXCEPT !.pc = "new_object"]
            /\ requests' = Append(requests, "new_object")
    /\ UNCHANGED <<recordVars, queryVars>>

\* from the return of the new_object request to the loop over the caller's
\* attributes
NewObjectDefaults(resp) ==
    /\ creation.pc = "new_object"
    /\ IF resp.kind # "decoded"
       THEN /\ NewObjectFails(<<resp.kind>>)
            /\ UNCHANGED recordVars
       ELSE /\ attributes' = [key \in DOMAIN resp.result \cup {"object_id"} |->
                                IF key = "object_id" THEN Nil ELSE resp.result[key]]
            /\ settled' = attributes'
            /\ creation' = [creation EXCEPT !.pc = "Set", !.remaining = DOMAIN creation.given]
            /\ UNCHANGED <<oldValues, deleted, lastOp, written>>
    /\ UNCHANGED <<requests, queryVars>>

\* one round of the loop: Set on an attribute of the caller, in the order the
\* map hands them out; after the last one Commit sends its request
NewObjectSet(key) ==
    /\ creation.pc = "Set"
    /\ key \in creation.remaining
    /\ Set(key, creation.given[key])
    /\ IF key \notin DOMAIN attributes
       THEN /\ NewObjectFails(<<"setting attribute", key, ErrUnknownAttribute>>)
            /\ UNCHANGED requests
       ELSE IF creation.remaining = {key}
       THEN /\ creation' = [creation EXCEPT !.pc = "commit", !.remaining = {}]
            /\ requests' = Append(requests, "commit")
       ELSE /\ creation' = [creation EXCEPT !.remaining = creation.remaining \ {key}]
            /\ UNCHANGED requests
    /\ UNCHANGED queryVars

\* NewObject going on to the query although Commit returned an error
NewObjectCommitted_IgnoresError(resp) ==
    /\ creation.pc = "commit"
    /\ Commit(resp)
    /\ creation' = [creation EXCEPT !.pc = "query"]
    /\ requests' = Append(requests, "query")
    /\ UNCHANGED queryVars

\* from the return of the commit request to the request of One
NewObjectCommitted(resp) ==
    /\ creation.pc = "commit"
    /\ Commit(resp)
    /\ IF sendCommit(resp).err # ""
       THEN /\ NewObjectFails(<<"committing new object", sendCommit(resp).err>>)
            /\ UNCHANGED requests
       ELSE /\ creation' = [creation EXCEPT !.pc = "query"]
            /\ requests' = Append(requests, "query")
    /\ UNCHANGED queryVars

\* from the return of the query request on: One, Set of object_id on the
\* record that was committed, return of the record One found
NewObjectQueried(resp) ==
    /\ creation.pc = "query"
    /\ QueryOne(resp)
    /\ LET done == load(resp)
       IN  IF done.err # "" \/ Len(done.serverObjects) # 1
           THEN /\ NewObjectFails(<<"re-querying created object">>)
                /\ UNCHANGED recordVars
           ELSE /\ Set("object_id", GoInt(ObjectID(done.serverObjects[1].attributes)))
                /\ creation' = [creation EXCEPT !.pc = "done",
                                                !.returned = <<done.serverObjects[1]>>]
    /\ UNCHANGED requests

NextNew ==
    \/ NewObjectCall /\ UNCHANGED <<diffVars, collVars, parseVars, multiVars, holderVars>>
    \/ \E resp \in NewObjectResponses :
          NewObjectDefaults(resp) /\ UNCHANGED <<diffVars, collVars, parseVars, multiVars, holderVars>>
    \/ \E key \in GivenKeys :
          NewObjectSet(key) /\ UNCHANGED <<diffVars, collVars, parseVars, multiVars, holderVars>>
    \/ \E resp \in Responses :
          NewObjectCommitted(resp) /\ UNCHANGED <<diffVars, collVars, parseVars, multiVars, holderVars>>
    \/ \E resp \in QueryResponses :
          NewObjectQueried(resp) /\ UNCHANGED <<diffVars, collVars, parseVars, multiVars, holderVars>>

SpecNew == InitNew /\ [][NextNew]_vars

(***************************************************************************)
(* SpecMulti: a record with a field tags, the MultiAttr a caller gets from *)
(* GetMulti and changes with Add, Delete and Clear, and Set with it.       *)
(* Slices are headers over backing arrays in heap, so that two slices can  *)
(* share storage: a header holds its element type in t, its length in n    *)
(* and the address of its array in l (0 for a slice of capacity 0); the    *)
(* capacity is the length of the array.  The caller also keeps the slice   *)
(* the field held at first and writes elements through it and through the  *)
(* MultiAttr.                                                              *)
(***************************************************************************)
\* an element that is no string (the int 42 of a decoded list), and the
\* element a caller writes in place
NonString == "#42"
Written == "z"
MultiElems == {"a", "b"}

Slice(t, addr, len) == [t |-> t, s |-> "", n |-> len, l |-> <<addr>>]
IsRef(v) == v.t \in {"[]any", "[]string", "MultiAttr"}
\* the elements of a slice; a value that is no slice has none
Elems(h, v) == IF ~IsRef(v) \/ v.l[1] = 0 THEN <<>> ELSE SubSeq(h[v.l[1]], 1, v.n)
Cap(h, v) == IF v.l[1] = 0 THEN 0 ELSE Len(h[v.l[1]])

\* the value a header stands for, as json.Marshal and toAnySlice see it
ValueOf(h, v) ==
    IF ~IsRef(v) THEN v
    ELSE IF v.t = "[]any" THEN AnySlice(Elems(h, v)) ELSE StringSlice(Elems(h, v))
ValuesOf(h, attrs) == [key \in DOMAIN attrs |-> ValueOf(h, attrs[key])]

\* make and fill: a new array of capacity size holding q, and the slice of
\* type t over its first Len(q) elements
Make(h, t, q, size) ==
    IF size = 0 THEN [heap |-> h, m |-> Slice(t, 0, 0)]
    ELSE [heap |-> Append(h, [i \in 1..size |-> IF i <= Len(q) THEN q[i] ELSE ""]),
          m |-> Slice(t, Len(h) + 1, Len(q))]

\* append(*m, elem): in place when the capacity allows it, in a new array of
\* twice the capacity otherwise
GoAppend(h, m, elem) ==
    IF m.n < Cap(h, m)
    THEN [heap |-> [h EXCEPT ![m.l[1]][m.n + 1] = elem], m |-> Slice(m.t, m.l[1], m.n + 1)]
    ELSE Make(h, m.t, Append(Elems(h, m), elem), IF m.n = 0 THEN 1 ELSE 2 * m.n)

\* MultiAttr.Contains
MultiAttrContains(h, m, elem) == \E i \in 1..m.n : h[m.l[1]][i] = elem

\* MultiAttr.Add appending every element it is given
RECURSIVE MultiAttrAdd_NoCheck(_, _, _)
MultiAttrAdd_NoCheck(h, m, elems) ==
    IF elems = <<>> THEN [heap |-> h, m |-> m]
    ELSE LET r == GoAppend(h, m, Head(elems))
         IN  MultiAttrAdd_NoCheck(r.heap, r.m, Tail(elems))

\* MultiAttr.Add
RECURSIVE MultiAttrAdd(_, _, _)
MultiAttrAdd(h, m, elems) ==
    IF elems = <<>> THEN [heap |-> h, m |-> m]
    ELSE LET r == IF MultiAttrContains(h, m, Head(elems)) THEN [heap |-> h, m |-> m]
                  ELSE GoAppend(h, m, Head(elems))
         IN  MultiAttrAdd(r.heap, r.m, Tail(elems))

\* MultiAttr.Delete filtering in the array of the receiver
MultiAttrDelete_InPlace(h, m, elem) ==
    LET kept == SelectSeq(Elems(h, m), LAMBDA v : v # elem)
    IN  IF m.l[1] = 0 THEN [heap |-> h, m |-> m]
        ELSE [heap |-> [h EXCEPT ![m.l[1]] =
                          [i \in 1..Len(h[m.l[1]]) |->
                              IF i <= Len(kept) THEN kept[i] ELSE h[m.l[1]][i]]],
              m |-> Slice("MultiAttr", m.l[1], Len(kept))]

\* MultiAttr.Delete
MultiAttrDelete(h, m, elem) ==
    Make(h, "MultiAttr", SelectSeq(Elems(h, m), LAMBDA v : v # elem), m.n)

\* MultiAttr.Clear
MultiAttrClear(h, m) == [heap |-> h, m |-> Slice("MultiAttr", 0, 0)]

\* GetMulti keeping every element of a []any
GetMulti_KeepsAll(h, attrs, attribute) ==
    IF attribute \notin DOMAIN attrs THEN [heap |-> h, m |-> Slice("MultiAttr", 0, 0)]
    ELSE LET val == attrs[attribute]
         IN  IF val.t \in {"MultiAttr", "[]string"}
             THEN [heap |-> h, m |-> Slice("MultiAttr", val.l[1], val.n)]
             ELSE IF val.t = "[]any"
             THEN Make(h, "MultiAttr", Elems(h, val), val.n)
             ELSE [heap |-> h, m |-> Slice("MultiAttr", 0, 0)]

\* ServerObject.GetMulti
GetMulti(h, attrs, attribute) ==
    IF attribute \notin DOMAIN attrs THEN [heap |-> h, m |-> Slice("MultiAttr", 0, 0)]
    ELSE LET val == attrs[attribute]
         IN  IF val.t \in {"MultiAttr", "[]string"}
             THEN [heap |-> h, m |-> Slice("MultiAttr", val.l[1], val.n)]
             ELSE IF val.t = "[]any"
             THEN Make(h, "MultiAttr", SelectSeq(Elems(h, val), LAMBDA e : e # NonString), val.n)
             ELSE [heap |-> h, m |-> Slice("MultiAttr", 0, 0)]

\* the values the field tags holds at first: none (the record has no such
\* field), nil, a string, a number, a decoded list, a []string with or
\* without spare capacity
TagFields ==
    {[heap |-> <<>>, m |-> v] : v \in {Nil, Str("not-a-slice"), GoInt(42)}}
    \cup {Make(<<>>, "[]any", q, Len(q)) : q \in SeqsUpTo(MultiElems \cup {NonString}, MaxTags)}
    \cup {Make(<<>>, "[]string", q, Len(q) + spare) :
            q \in SeqsUpTo(MultiElems, MaxTags), spare \in {0, 1}}

\* multiOp before the first call: op and elems are the last call and its
\* argument, err its error, got the elements of the MultiAttr when GetMulti
\* returned it, fresh whether only Add, Delete and Clear were called since,
\* captured the elements of the field when Set recorded its prior value,
\* orig the slice the field held at first, steps the number of calls so far
NoMultiOp(first) ==
    [err |-> "", op |-> "new", elems |-> <<>>, got |-> <<>>, fresh |-> FALSE,
     captured |-> <<>>, orig |-> first, steps |-> 0]

InitMulti ==
    /\ \E f \in TagFields, present \in BOOLEAN :
          /\ heap = f.heap
          /\ attributes = [key \in {"object_id"} \cup (IF present THEN {"tags"} ELSE {}) |->
                              IF key = "object_id" THEN Float64(42) ELSE f.m]
          /\ multiOp = NoMultiOp(IF present THEN f.m ELSE Nil)
          /\ present \/ f.m = Nil
    /\ tags = Slice("MultiAttr", 0, 0)
    /\ oldValues = NoAttributes
    /\ deleted = FALSE
    /\ lastOp = NewOp
    /\ settled = attributes
    /\ written = {}
    /\ InitDiffIdle
    /\ InitCollIdle
    /\ InitQueryIdle
    /\ InitParseIdle
    /\ InitNewIdle
    /\ InitHolderIdle

\* a call on the record or on the MultiAttr, counted
MultiCall(name, elems, err) ==
    /\ multiOp.steps < MaxCalls
    /\ multiOp' = [multiOp EXCEPT !.op = name, !.elems = elems, !.err = err,
                                  !.steps = multiOp.steps + 1,
                                  !.fresh = IF name = "GetMulti" THEN TRUE
                                            ELSE multiOp.fresh
                                                 /\ name \in {"Add", "Delete", "Clear"},
                                  !.got = IF name = "GetMulti" THEN Elems(heap', tags')
                                          ELSE multiOp.got,
                                  !.captured = IF name = "Set" /\ "tags" \notin DOMAIN oldValues
                                                  /\ "tags" \in DOMAIN attributes
                                               THEN Elems(heap, attributes["tags"])
                                               ELSE multiOp.captured]

\* tags := obj.GetMulti("tags")
GetMultiStep ==
    /\ LET r == GetMulti(heap, attributes, "tags")
       IN  heap' = r.heap /\ tags' = r.m
    /\ MultiCall("GetMulti", <<>>, "")
    /\ UNCHANGED recordVars

\* tags.Add(elems...), tags.Delete(elem), tags.Clear(): r is what the method
\* leaves in the heap and in tags
MultiAttrStep(name, elems, r) ==
    /\ heap' = r.heap
    /\ tags' = r.m
    /\ MultiCall(name, elems, "")
    /\ UNCHANGED recordVars

\* Set storing the slice it is given as the prior value
MultiSet_SharesOld(key, value) ==
    /\ key \in DOMAIN attributes
    /\ oldValues' = IF key \in DOMAIN oldValues THEN oldValues
                    ELSE [k \in DOMAIN oldValues \cup {key} |->
                            IF k = key THEN attributes[key] ELSE oldValues[k]]
    /\ heap' = heap
    /\ attributes' = [attributes EXCEPT ![key] = value]
    /\ MultiCall("Set", <<>>, "")
    /\ UNCHANGED <<tags, deleted, lastOp, settled, written>>

\* ServerObject.Set(key, value) with the storage of the slices: the prior
\* value of a slice is a new []any holding its elements
MultiSet(key, value) ==
    IF key \notin DOMAIN attributes
    THEN /\ MultiCall("Set", <<>>, ErrUnknownAttribute)
         /\ UNCHANGED <<heap, tags, recordVars>>
    ELSE /\ LET old == attributes[key]
                cp == IF IsRef(old) THEN Make(heap, "[]any", Elems(heap, old), old.n)
                      ELSE [heap |-> heap, m |-> old]
            IN  IF key \in DOMAIN oldValues
                THEN UNCHANGED <<heap, oldValues>>
                ELSE /\ heap' = cp.heap
                     /\ oldValues' = [k \in DOMAIN oldValues \cup {key} |->
                                        IF k = key THEN cp.m ELSE oldValues[k]]
         /\ attributes' = [attributes EXCEPT ![key] = value]
         /\ MultiCall("Set", <<>>, "")
         /\ UNCHANGED <<tags, deleted, lastOp, settled, written>>

\* s[i] = Written through a slice the caller holds
WriteElem(name, s, i) ==
    /\ IsRef(s)
    /\ i <= s.n
    /\ heap' = [heap EXCEPT ![s.l[1]][i] = Written]
    /\ MultiCall(name, <<>>, "")
    /\ UNCHANGED <<tags, recordVars>>

\* ServerObject.Rollback
MultiRollback ==
    /\ attributes' = RollbackAttributes(attributes, oldValues)
    /\ oldValues' = NoAttributes
    /\ deleted' = FALSE
    /\ MultiCall("Rollback", <<>>, "")
    /\ UNCHANGED <<heap, tags, lastOp, settled, written>>

NextMulti ==
    \/ GetMultiStep /\ UNCHANGED <<diffVars, collVars, queryVars, parseVars, newVars, holderVars>>
    \/ \E elems \in SeqsUpTo(MultiElems, 2) \ {<<>>} :
          /\ MultiAttrStep("Add", elems, MultiAttrAdd(heap, tags, elems))
          /\ UNCHANGED <<diffVars, collVars, queryVars, parseVars, newVars, holderVars>>
    \/ \E elem \in MultiElems :
          /\ MultiAttrStep("Delete", <<elem>>, MultiAttrDelete(heap, tags, elem))
          /\ UNCHANGED <<diffVars, collVars, queryVars, parseVars, newVars, holderVars>>
    \/ /\ MultiAttrStep("Clear", <<>>, MultiAttrClear(heap, tags))
       /\ UNCHANGED <<diffVars, collVars, queryVars, parseVars, newVars, holderVars>>
    \/ /\ MultiSet("tags", tags)
       /\ UNCHANGED <<diffVars, collVars, queryVars, parseVars, newVars, holderVars>>
    \/ \E i \in 1..MaxTags :
          /\ WriteElem("WriteOriginal", multiOp.orig, i) \/ WriteElem("WriteNew", tags, i)
          /\ UNCHANGED <<diffVars, collVars, queryVars, parseVars, newVars, holderVars>>
    \/ /\ MultiRollback
       /\ UNCHANGED <<diffVars, collVars, queryVars, parseVars, newVars, holderVars>>

SpecMulti == InitMulti /\ [][NextMulti]_vars

(***************************************************************************)
(* SpecShare: two ServerObjects, A and B, over the same records.  A        *)
(* ServerObjects is a []*ServerObject: objects is the store of the records, *)
(* the address of a record is its index there, and a collection is the     *)
(* sequence of the addresses it holds.  Every call is one step.            *)
(***************************************************************************)
HolderNames == {"A", "B"}

\* the collections over the records at 1..size: A holds the records up to
\* one of them, B the records from one of them on, so that the two share
\* between none and all of the records
Holders(size) ==
    {[name \in HolderNames |->
        IF name = "A" THEN [i \in 1..last |-> i] ELSE [i \in 1..(size - first + 1) |-> first + i - 1]] :
     last \in 1..size, first \in 1..size}

\* the answers of the transport to a commit request: none, and a success
ShareResponses == {resp \in Responses : resp.kind = "transport error" \/ resp.status = "success"}

\* the records a loop over the collection visits, in order
MembersOf(holder) == [i \in DOMAIN holder |-> objects[holder[i]]]

\* the addresses a collection holds
Held(name) == {colls[name][i] : i \in DOMAIN colls[name]}

\* a call through a collection and its result
ShareCall(name, via, err, sent) ==
    [err |-> err, op |-> name, sent |-> sent, via |-> via,
     after |-> IF shareOp.op = "Commit" /\ shareOp.err = "" /\ shareOp.via # via
               THEN shareOp.sent ELSE <<>>]

InitShare ==
    /\ \E size \in 1..MaxMembers : objects \in Collections(size)
    /\ colls \in Holders(Len(objects))
    /\ shareOp = NoShareCall
    /\ collSettled = [i \in DOMAIN objects |-> objects[i].attributes]
    /\ collOp = NoCall
    /\ wire = <<>>
    /\ call = Idle
    /\ refs = NoRefs
    /\ queryFilters = NilFilters
    /\ queryOrderBy = ""
    /\ attributes = [key \in Keys |->
                        CASE key = "object_id" -> Float64(1)
                          [] key = "hostname" -> Str("h1")
                          [] key = "tags" -> Nil]
    /\ oldValues = NoAttributes
    /\ deleted = FALSE
    /\ lastOp = NewOp
    /\ settled = attributes
    /\ written = {}
    /\ InitDiffIdle
    /\ InitQueryIdle
    /\ InitParseIdle
    /\ InitNewIdle
    /\ InitMultiIdle

\* ServerObjects.Set through the collection via
ShareSet(via, key, value) ==
    LET members == MembersOf(colls[via])
        failed == SetErrors(members, key, Len(members))
    IN  /\ objects' = [a \in DOMAIN objects |->
                          IF a \in Held(via) THEN MemberSet(objects[a], key, value)
                          ELSE objects[a]]
        /\ shareOp' = ShareCall("Set", via, IF failed = <<>> THEN "" ELSE ErrUnknownAttribute, <<>>)
        /\ UNCHANGED <<colls, collSettled>>

\* ServerObjects.Delete through the collection via
ShareDelete(via) ==
    /\ objects' = [a \in DOMAIN objects |->
                      IF a \in Held(via) THEN MemberDelete(objects[a]) ELSE objects[a]]
    /\ shareOp' = ShareCall("Delete", via, "", <<>>)
    /\ UNCHANGED <<colls, collSettled>>

\* ServerObjects.Rollback through the collection via
ShareRollback(via) ==
    /\ objects' = [a \in DOMAIN objects |->
                      IF a \in Held(via) THEN MemberRollback(objects[a]) ELSE objects[a]]
    /\ collSettled' = [a \in DOMAIN objects |->
                          IF a \in Held(via) THEN objects'[a].attributes ELSE collSettled[a]]
    /\ shareOp' = ShareCall("Rollback", via, "", <<>>)
    /\ UNCHANGED colls

\* ServerObjects.Commit that confirms copies of the members it holds
ShareCommit_ConfirmsCopies(via, resp) ==
    LET result == sendCommit(resp)
    IN  /\ \E commit \in buildCommit(MembersOf(colls[via])) :
              shareOp' = ShareCall("Commit", via, result.err, <<commit>>)
        /\ UNCHANGED <<objects, colls, collSettled>>

\* ServerObjects.Commit through the collection via, answered by resp
ShareCommit(via, resp) ==
    LET result == sendCommit(resp)
    IN  /\ \E commit \in buildCommit(MembersOf(colls[via])) :
              shareOp' = ShareCall("Commit", via, result.err, <<commit>>)
        /\ IF result.err # ""
           THEN UNCHANGED <<objects, collSettled>>
           ELSE /\ objects' = [a \in DOMAIN objects |->
                                 IF a \in Held(via)
                                 THEN confirmChanges(objects[a].attributes, objects[a].oldValues,
                                                     objects[a].deleted)
                                 ELSE objects[a]]
                /\ collSettled' = [a \in DOMAIN objects |->
                                     IF a \in Held(via) THEN objects'[a].attributes
                                     ELSE collSettled[a]]
        /\ UNCHANGED colls

ShareFrame ==
    UNCHANGED <<recordVars, diffVars, collOp, wire, call, queryVars, parseVars, newVars, multiVars,
                refs, queryFilters, queryOrderBy>>

ShareSetStep ==
    \E via \in HolderNames, key \in CollSetKeys, value \in CollSetValues :
        ShareSet(via, key, value) /\ ShareFrame
ShareDeleteStep == \E via \in HolderNames : ShareDelete(via) /\ ShareFrame
ShareRollbackStep == \E via \in HolderNames : ShareRollback(via) /\ ShareFrame
ShareCommitStep ==
    \E via \in HolderNames, resp \in ShareResponses : ShareCommit(via, resp) /\ ShareFrame

NextShare ==
    \/ ShareSetStep
    \/ ShareDeleteStep
    \/ ShareRollbackStep
    \/ ShareCommitStep

SpecShare == InitShare /\ [][NextShare]_vars

(***************************************************************************)
(* SpecCache: one Query and the caller that keeps what All and One gave    *)
(* it.  serverObjects is a []*ServerObject the Query allocates once: the   *)
(* address of a record is its index there, refs.all is the slice the last  *)
(* All returned (the addresses it holds), refs.one the pointer the last    *)
(* One returned (0 for nil).  The caller changes a record through either.  *)
(***************************************************************************)
\* the arguments of SetAttributes, AddAttributes, OrderBy and AddFilter
CacheSetLists == {<<"hostname">>}
CacheAddLists == {<<"memory">>}
CacheOrders == {"hostname"}
CacheFilters == {Str("web")}

\* the panic of an assignment to an entry of a nil map
ErrNilMap == "assignment to entry in nil map"

\* NewQuery(filters), filters nil or an empty map
InitCache ==
    /\ restrictedAttributes = <<"object_id", "hostname">>
    /\ loaded = FALSE
    /\ serverObjects = <<>>
    /\ queryOp = NoQueryCall
    /\ fetches = 0
    /\ queryFilters \in {NilFilters, MakeFilters(NoAttributes)}
    /\ queryOrderBy = ""
    /\ refs = NoRefs
    /\ colls = [name \in {"A", "B"} |-> <<>>]
    /\ shareOp = NoShareCall
    /\ attributes = [key \in Keys |->
                        CASE key = "object_id" -> Float64(1)
                          [] key = "hostname" -> Str("h1")
                          [] key = "tags" -> Nil]
    /\ oldValues = NoAttributes
    /\ deleted = FALSE
    /\ lastOp = NewOp
    /\ settled = attributes
    /\ written = {}
    /\ InitDiffIdle
    /\ InitCollIdle
    /\ InitParseIdle
    /\ InitNewIdle
    /\ InitMultiIdle

\* Query.OrderBy
QueryOrderBy(attribute) ==
    /\ queryOrderBy' = attribute
    /\ UNCHANGED <<queryVars, queryFilters, refs>>

\* Query.AddFilter: q.filters[attribute] = filter, a panic when filters is nil
QueryAddFilter(attribute, filter) ==
    /\ IF queryFilters.isNil
       THEN /\ refs' = [refs EXCEPT !.panic = ErrNilMap]
            /\ UNCHANGED queryFilters
       ELSE /\ queryFilters' =
                  MakeFilters([k \in DOMAIN queryFilters.m \cup {attribute} |->
                                  IF k = attribute THEN filter ELSE queryFilters.m[k]])
            /\ UNCHANGED refs
    /\ UNCHANGED <<queryVars, queryOrderBy>>

\* n, err := q.Count()
CacheCount(resp) ==
    /\ QueryCount(resp)
    /\ UNCHANGED <<refs, queryFilters, queryOrderBy>>

\* objs, err := q.All(): the slice header of q.serverObjects, nil on an error
CacheAll(resp) ==
    /\ QueryAll(resp)
    /\ refs' = [refs EXCEPT !.all = IF queryOp'.err = ""
                                     THEN [i \in DOMAIN serverObjects' |-> i] ELSE <<>>]
    /\ UNCHANGED <<queryFilters, queryOrderBy>>

\* obj, err := q.One(): q.serverObjects[0], nil on an error
CacheOne(resp) ==
    /\ QueryOne(resp)
    /\ refs' = [refs EXCEPT !.one = IF queryOp'.err = "" THEN 1 ELSE 0]
    /\ UNCHANGED <<queryFilters, queryOrderBy>>

\* the addresses the caller holds in objs ("all") or obj ("one")
RefsHeld(through) ==
    IF through = "one" THEN {refs.one} \ {0} ELSE {refs.all[i] : i \in DOMAIN refs.all}

\* obj.Set(key, value) or objs[i].Set(key, value): Set on the record at an
\* address the caller holds
RefSet(through, a, key, value) ==
    /\ a \in RefsHeld(through)
    /\ serverObjects' = [serverObjects EXCEPT ![a] = MemberSet(@, key, value)]
    /\ refs' = [refs EXCEPT !.through = through]
    /\ UNCHANGED <<restrictedAttributes, loaded, queryOp, fetches, queryFilters, queryOrderBy>>

CacheFrame ==
    UNCHANGED <<recordVars, diffVars, collVars, parseVars, newVars, multiVars, colls, shareOp>>

CacheSetAttributesStep ==
    \E attrs \in CacheSetLists :
        QuerySetAttributes(attrs) /\ UNCHANGED <<refs, queryFilters, queryOrderBy>> /\ CacheFrame
CacheAddAttributesStep ==
    \E attrs \in CacheAddLists :
        QueryAddAttributes(attrs) /\ UNCHANGED <<refs, queryFilters, queryOrderBy>> /\ CacheFrame
CacheOrderByStep == \E attribute \in CacheOrders : QueryOrderBy(attribute) /\ CacheFrame
CacheAddFilterStep ==
    \E attribute \in CacheOrders, filter \in CacheFilters :
        QueryAddFilter(attribute, filter) /\ CacheFrame
CacheCountStep == \E resp \in QueryResponses : CacheCount(resp) /\ CacheFrame
CacheAllStep == \E resp \in QueryResponses : CacheAll(resp) /\ CacheFrame
CacheOneStep == \E resp \in QueryResponses : CacheOne(resp) /\ CacheFrame
RefSetStep ==
    \E through \in {"one", "all"} : \E a \in RefsHeld(through) :
        RefSet(through, a, "hostname", Str("h2")) /\ CacheFrame

NextCache ==
    \/ CacheSetAttributesStep
    \/ CacheAddAttributesStep
    \/ CacheOrderByStep
    \/ CacheAddFilterStep
    \/ CacheCountStep
    \/ CacheAllStep
    \/ CacheOneStep
    \/ RefSetStep

SpecCache == InitCache /\ [][NextCache]_vars

(***************************************************************************)
(* Properties                                                              *)
(***************************************************************************)
Range(q) == {q[i] : i \in DOMAIN q}
NoDuplicates(q) == \A i, j \in DOMAIN q : q[i] = q[j] => i = j

\* a Go slice of either element type, nil or not
IsSlice(v) == v.t \in {"[]any", "[]string", "[]any(nil)", "[]string(nil)"}

\* the same value: slices element by element whatever their element type,
\* every other value exactly
SameValue(a, b) == IF IsSlice(a) THEN IsSlice(b) /\ a.l = b.l ELSE a = b

RestoredToSettled == \A key \in DOMAIN attributes : SameValue(attributes'[key], settled[key])

\* C1 as stated: a Rollback restores every field to its value at the last
\* settle point, empties oldValues, and CommitState is then "consistent",
\* for any record.
C1_AsStated ==
    [][lastOp'.op = "Rollback" =>
        /\ RestoredToSettled
        /\ oldValues' = NoAttributes
        /\ CommitState' = StateConsistent]_vars

\* C1: a Rollback restores every field to the value it had at the last settle
\* point (a slice element by element), empties oldValues and clears the
\* deleted flag; CommitState is then "consistent" when the restored object_id
\* is not nil and "created" when it is nil.
C1_RollbackRoundTrip ==
    [][lastOp'.op = "Rollback" =>
        /\ RestoredToSettled
        /\ oldValues' = NoAttributes
        /\ ~deleted'
        /\ CommitState' = IF attributes'["object_id"] = Nil
                          THEN StateCreated ELSE StateConsistent]_vars

\* a Rollback that undid Sets on two fields of a deleted, persisted record
C1_Witness ==
    /\ lastOp.op = "Rollback"
    /\ lastOp.restored >= 2
    /\ lastOp.wasDeleted
    /\ CommitState = StateConsistent

\* C2: a key has an entry in oldValues iff a Set on it succeeded since the
\* last settle point (successful Commit or Rollback).
C2_PriorIffWritten == DOMAIN oldValues = written

\* a Commit failed and the written keys are still tracked
C2_Witness ==
    /\ lastOp.op = "Commit"
    /\ lastOp.err # ""
    /\ Cardinality(written) >= 2

\* what serializeChanges may report for key, given the value before the first
\* Set and the value written last
ReportsOldAndNew(c, key, before, last) ==
    /\ c[key].action = "update" => SameValue(c[key].old, before) /\ c[key].new = last
    /\ c[key].action = "multi" =>
          /\ Range(c[key].add) = Range(toAnySlice(last).l) \ Range(before.l)
          /\ Range(c[key].remove) = Range(before.l) \ Range(toAnySlice(last).l)

\* C3: whatever the number of Sets on a key since the last settle point, its
\* entry in oldValues is the value the key had at that settle point, and
\* serializeChanges reports that value as old and the value written last as
\* new (for two slices: the elements added to and removed from it).
C3_FirstWriteWins ==
    /\ \A key \in written :
          key \in DOMAIN oldValues /\ SameValue(oldValues[key], settled[key])
    /\ lastOp.op = "Set" /\ lastOp.err = "" =>
          /\ attributes[lastOp.key] = lastOp.value
          /\ \A c \in serializeChanges :
                lastOp.key \in DOMAIN c =>
                    ReportsOldAndNew(c, lastOp.key, settled[lastOp.key], lastOp.value)

\* a second Set on hostname, reported as an update from the settled value
C3_Witness ==
    /\ lastOp.op = "Set"
    /\ lastOp.key = "hostname"
    /\ lastOp.tracked
    /\ \E c \in serializeChanges :
          /\ "hostname" \in DOMAIN c
          /\ c["hostname"] = UpdateEntry(settled["hostname"], lastOp.value)

\* C4: Set on a key that is not in attributes returns ErrUnknownAttribute and
\* leaves attributes, oldValues and deleted as they were.
C4_SetUnknown ==
    [][lastOp'.op = "Set" /\ lastOp'.key \notin DOMAIN attributes =>
        /\ lastOp'.err = ErrUnknownAttribute
        /\ attributes' = attributes
        /\ oldValues' = oldValues
        /\ deleted' = deleted]_vars

\* a failed Set on a record with pending changes
C4_Witness ==
    /\ lastOp.op = "Set"
    /\ lastOp.key \notin DOMAIN attributes
    /\ lastOp.err = ErrUnknownAttribute
    /\ oldValues # NoAttributes

SomePriorDiffers ==
    \E key \in DOMAIN oldValues : Marshal(oldValues[key]) # Marshal(attributes[key])

\* C5: CommitState is "created" when object_id is nil; else "deleted" when the
\* record is marked deleted; else "changed" when some prior value differs from
\* the current one; else "consistent".
C5_CommitStatePriority ==
    /\ CommitState \in {StateCreated, StateDeleted, StateChanged, StateConsistent}
    /\ attributes["object_id"] = Nil => CommitState = StateCreated
    /\ attributes["object_id"] # Nil /\ deleted => CommitState = StateDeleted
    /\ attributes["object_id"] # Nil /\ ~deleted /\ SomePriorDiffers
          => CommitState = StateChanged
    /\ attributes["object_id"] # Nil /\ ~deleted /\ ~SomePriorDiffers
          => CommitState = StateConsistent

\* a deleted record with a differing prior value: "deleted" wins over "changed"
C5_Witness ==
    /\ attributes["object_id"] # Nil
    /\ deleted
    /\ SomePriorDiffers
    /\ CommitState = StateDeleted

\* C6 as stated: after Delete, however often it was called, CommitState is
\* "deleted", and after a following Rollback it is "consistent", for any
\* record.
C6_AsStated ==
    /\ lastOp.op = "Delete" => CommitState = StateDeleted
    /\ lastOp.op = "Rollback" /\ lastOp.wasDeleted => CommitState = StateConsistent

\* C6: after Delete, however often it was called, the record is marked deleted
\* and CommitState is "deleted" when object_id is not nil and "created" when
\* it is nil; after a following Rollback the mark is cleared and CommitState
\* is "consistent" when the restored object_id is not nil, "created" when it
\* is nil.
C6_DeleteIdempotent ==
    /\ lastOp.op = "Delete" =>
          /\ deleted
          /\ CommitState = IF attributes["object_id"] = Nil
                           THEN StateCreated ELSE StateDeleted
    /\ lastOp.op = "Rollback" /\ lastOp.wasDeleted =>
          /\ ~deleted
          /\ CommitState = IF attributes["object_id"] = Nil
                           THEN StateCreated ELSE StateConsistent

\* a second Delete in a row on a persisted record
C6_Witness ==
    /\ lastOp.op = "Delete"
    /\ lastOp.wasDeleted
    /\ CommitState = StateDeleted

\* C7: Delete marks the record deleted and changes neither attributes nor
\* oldValues.
C7_DeleteFrame ==
    [][lastOp'.op = "Delete" =>
        /\ deleted'
        /\ attributes' = attributes
        /\ oldValues' = oldValues]_vars

\* a Delete on a record with pending changes
C7_Witness ==
    /\ lastOp.op = "Delete"
    /\ deleted
    /\ oldValues # NoAttributes

\* C8: when the prior and the current value of a changed field are both
\* sequences, serializeChanges reports action "multi" with add = the elements
\* of the new sequence that are not in the old one and remove = the elements
\* of the old sequence that are not in the new one, each once, whatever the
\* order of the elements in either sequence.
C8_DiffMinimal ==
    lastOp.op = "Set" /\ Marshal(AnySlice(diffOld)) # Marshal(AnySlice(diffCur)) =>
        \A c \in serializeChanges :
            /\ "tags" \in DOMAIN c
            /\ c["tags"].action = "multi"
            /\ Range(c["tags"].add) = Range(diffCur) \ Range(diffOld)
            /\ Range(c["tags"].remove) = Range(diffOld) \ Range(diffCur)
            /\ NoDuplicates(c["tags"].add)
            /\ NoDuplicates(c["tags"].remove)

\* old = [b, a] and new = [c, b], a permutation of the example: add = [c],
\* remove = [a]
C8_Witness ==
    /\ lastOp.op = "Set"
    /\ diffOld = <<"b", "a">>
    /\ diffCur = <<"c", "b">>
    /\ \A c \in serializeChanges : c["tags"] = MultiEntry(<<"c">>, <<"a">>)

\* a non-nil slice
IsSequence(v) == v.t \in {"[]any", "[]string"}

\* C9 as stated: serializeChanges returns a map that holds the identity under
\* object_id and, for exactly the other keys whose prior value differs from
\* the current value, one entry: a "multi" entry when both values are
\* sequences, else an "update" entry with the prior value as old and the
\* current value as new.
C9_AsStated ==
    \A c \in serializeChanges :
        /\ "object_id" \in DOMAIN c
        /\ c["object_id"] = IdentityEntry(ObjectID(attributes))
        /\ \A key \in Keys \ {"object_id"} :
              /\ key \in DOMAIN c <=>
                    /\ key \in DOMAIN oldValues
                    /\ Marshal(oldValues[key]) # Marshal(attributes[key])
              /\ key \in DOMAIN c /\ IsSequence(oldValues[key]) /\ IsSequence(attributes[key])
                    => c[key].action = "multi"
              /\ key \in DOMAIN c /\ (~IsSlice(oldValues[key]) \/ ~IsSlice(attributes[key]))
                    => c[key] = UpdateEntry(oldValues[key], attributes[key])

\* C10: when the two sequences have the same set of elements (they differ by
\* order or by repetition only), sliceDiff returns an empty add and an empty
\* remove.
C10_SetDifference ==
    diffOut # NoDiff /\ Range(diffOld) = Range(diffCur) =>
        diffOut.add = <<>> /\ diffOut.remove = <<>>

\* sliceDiff was called on two different sequences with the same elements
C10_Witness ==
    /\ diffOut # NoDiff
    /\ diffOld # diffCur
    /\ Len(diffOld) = 2
    /\ Range(diffOld) = Range(diffCur)
    /\ diffOut.add = <<>>
    /\ diffOut.remove = <<>>

\* C11: a successful Commit (the only caller of confirmChanges) empties
\* oldValues and clears the deleted flag; when the record was marked deleted
\* it also sets object_id to nil and leaves the other attributes alone, so
\* that CommitState is then "created" and not "deleted"; when it was not,
\* attributes are left as they were.
C11_ConfirmChanges ==
    [][lastOp'.op = "Commit" /\ lastOp'.err = "" =>
        /\ oldValues' = NoAttributes
        /\ ~deleted'
        /\ deleted =>
              /\ attributes'["object_id"] = Nil
              /\ \A key \in Keys \ {"object_id"} : attributes'[key] = attributes[key]
              /\ CommitState' = StateCreated
        /\ ~deleted => attributes' = attributes]_vars

\* the deletion of a record with a pending change was committed
C11_Witness ==
    /\ lastOp.op = "Commit"
    /\ lastOp.err = ""
    /\ lastOp.id = CommitID
    /\ lastOp.wasDeleted
    /\ attributes["object_id"] = Nil
    /\ attributes["hostname"] # Str("h1")
    /\ attributes["tags"] = StringSlice(<<"a">>)
    /\ oldValues = NoAttributes
    /\ CommitState = StateCreated

\* the member as confirmChanges leaves it
Confirmed(obj) == confirmChanges(obj.attributes, obj.oldValues, obj.deleted)

\* a Commit goes into sendRequest in this step
CommitSends == call.scope = "idle" /\ call'.scope # "idle"
\* a Commit comes back from sendRequest and returns in this step
CommitReturns == call.scope # "idle" /\ call'.scope = "idle"

\* C12: a Commit, of one record or of a collection of any size, hands exactly
\* one request to the transport, built from all its members, and leaves the
\* members untouched while it waits; when the call failed it confirms no
\* member, when it succeeded it confirms every member of the collection (the
\* one record for ServerObject.Commit, and no other).
C12_CommitOrdering ==
    [][/\ CommitSends =>
            /\ wire = <<>>
            /\ Len(wire') = 1
            /\ call'.scope = "ServerObjects.Commit" => wire'[1] \in buildCommit(objects)
            /\ call'.scope = "ServerObject.Commit" =>
                  wire'[1] \in buildCommit(<<objects[call'.member]>>)
            /\ objects' = objects
       /\ CommitReturns =>
            /\ Len(wire) = 1
            /\ wire' = <<>>
            /\ collOp'.sent = 1
            /\ collOp'.err # "" => objects' = objects
            /\ collOp'.err = "" /\ call.scope = "ServerObjects.Commit" =>
                  \A i \in DOMAIN objects : objects'[i] = Confirmed(objects[i])
            /\ collOp'.err = "" /\ call.scope = "ServerObject.Commit" =>
                  \A i \in DOMAIN objects :
                      objects'[i] = IF i = call.member THEN Confirmed(objects[i]) ELSE objects[i]
       /\ ~CommitSends /\ ~CommitReturns => wire' = wire]_vars

\* the Commit of a collection of two came back with success: the change of
\* the first member and the deletion of the second are confirmed
C12_Witness ==
    /\ collOp.op = "Commit"
    /\ collOp.err = ""
    /\ collOp.sent = 1
    /\ Len(objects) = 2
    /\ "memory" \in DOMAIN objects[1].attributes
    /\ objects[1].attributes["memory"] = GoInt(32)
    /\ objects[1].attributes["object_id"] = Float64(1)
    /\ DOMAIN objects[2].attributes = {"object_id", "hostname"}
    /\ objects[2].attributes["object_id"] = Nil
    /\ \A i \in DOMAIN objects : objects[i].oldValues = NoAttributes /\ ~objects[i].deleted

\* the attributes a Rollback of the member would restore
WouldRestore(obj) == RollbackAttributes(obj.attributes, obj.oldValues)

\* C13: when ServerObjects.Commit fails (transport error, undecodable body or
\* status "error") it returns one error and no commit identifier, and
\* attributes, oldValues and deleted of every member are as before, so that a
\* Rollback still restores the values of the last settle point; when it
\* succeeds, oldValues of every member is empty.
C13_AllOrNothing ==
    [][collOp'.op = "Commit" /\ CommitReturns =>
        /\ collOp'.err # "" =>
              /\ collOp'.id = 0
              /\ objects' = objects
              /\ \A i \in DOMAIN objects : WouldRestore(objects'[i]) = collSettled'[i]
        /\ collOp'.err = "" =>
              \A i \in DOMAIN objects : objects'[i].oldValues = NoAttributes]_vars

\* the Commit of two changed members, the second also marked deleted, was
\* answered with status "error": both still hold their prior values
C13_Witness ==
    /\ collOp.op = "Commit"
    /\ collOp.err = "commit failed: denied"
    /\ Len(objects) = 2
    /\ \A i \in DOMAIN objects :
          /\ DOMAIN objects[i].oldValues = {"memory"}
          /\ objects[i].oldValues["memory"] = Float64(16)
          /\ objects[i].attributes["memory"] = GoInt(32)
    /\ objects[2].deleted

\* C14 as stated: a Commit whose response carries a status other than
\* "success" returns an error and no commit identifier, and confirms no
\* record.
C14_AsStated ==
    collOp.op \in {"Commit", "ServerObject.Commit"} /\ collOp.answer # "success" =>
        /\ collOp.err # ""
        /\ collOp.id = 0

\* the members of the collection in the given commit state, in order
MembersIn(state) ==
    SelectSeq([i \in DOMAIN objects |-> i],
              LAMBDA i : CommitStateOf(objects[i].attributes, objects[i].oldValues,
                                       objects[i].deleted) = state)

\* C15: the request of ServerObjects.Commit lists, in the order of the
\* collection, the attributes of every member whose CommitState is "created"
\* under created, the serializeChanges of every "changed" member under
\* changed and the object_id of every "deleted" member under deleted, and
\* nothing else: no member is in two lists, a "consistent" member in none.
C15_Partition ==
    call.scope = "ServerObjects.Commit" =>
        LET commit == wire[1]
            created == MembersIn(StateCreated)
            changed == MembersIn(StateChanged)
            gone == MembersIn(StateDeleted)
        IN  /\ Len(wire) = 1
            /\ commit.created = [k \in DOMAIN created |-> objects[created[k]].attributes]
            /\ Len(commit.changed) = Len(changed)
            /\ \A k \in DOMAIN changed :
                  commit.changed[k] \in serializeChangesOf(objects[changed[k]].attributes,
                                                           objects[changed[k]].oldValues)
            /\ commit.deleted = [k \in DOMAIN gone |->
                                   Get(objects[gone[k]].attributes, "object_id")]
            /\ Len(created) + Len(changed) + Len(gone)
                  + Len(MembersIn(StateConsistent)) = Len(objects)

\* a request for a changed member that is also marked deleted and a member
\* that is only changed: one entry under deleted, one under changed
C15_Witness ==
    /\ call.scope = "ServerObjects.Commit"
    /\ Len(objects) = 2
    /\ objects[1].deleted
    /\ objects[1].oldValues # NoAttributes
    /\ ~objects[2].deleted
    /\ wire[1].deleted = <<GoInt(1)>>
    /\ wire[1].created = <<>>
    /\ Len(wire[1].changed) = 1
    /\ wire[1].changed[1]["object_id"] = IdentityEntry(2)
    /\ wire[1].changed[1]["memory"] = UpdateEntry(Float64(16), GoInt(32))

\* the members a ServerObjects.Set on key fails on
Lacking(key) == {i \in DOMAIN objects : key \notin DOMAIN objects[i].attributes}

\* C16: ServerObjects.Set(key, value) writes every member that has the key
\* (its prior value is kept from the first write since the last settle point,
\* nothing else of it changes), leaves every member without the key as it
\* was, also the members after one that failed, and returns an error that
\* names exactly the members without the key, in order, each with its index
\* and object_id; the error is nil iff no member failed.
C16_CollSet ==
    [][collOp'.op = "Set" =>
        LET key == collOp'.key
            value == collOp'.value
        IN  /\ \A i \in DOMAIN objects \ Lacking(key) :
                  /\ objects'[i].attributes = [objects[i].attributes EXCEPT ![key] = value]
                  /\ DOMAIN objects'[i].oldValues = DOMAIN objects[i].oldValues \cup {key}
                  /\ \A k \in DOMAIN objects[i].oldValues :
                        objects'[i].oldValues[k] = objects[i].oldValues[k]
                  /\ key \notin DOMAIN objects[i].oldValues =>
                        objects'[i].oldValues[key] = objects[i].attributes[key]
                  /\ objects'[i].deleted = objects[i].deleted
            /\ \A i \in Lacking(key) : objects'[i] = objects[i]
            /\ Len(collOp'.failed) = Cardinality(Lacking(key))
            /\ \A k \in DOMAIN collOp'.failed :
                  /\ collOp'.failed[k][1] + 1 \in Lacking(key)
                  /\ collOp'.failed[k][2] =
                        Get(objects[collOp'.failed[k][1] + 1].attributes, "object_id")
                  /\ \A j \in DOMAIN collOp'.failed :
                        j < k => collOp'.failed[j][1] < collOp'.failed[k][1]
            /\ collOp'.err = "" <=> Lacking(key) = {}
            /\ collOp'.err # "" => collOp'.err = ErrUnknownAttribute]_vars

\* Set("memory", 32) on a collection whose first member lacks memory: the
\* error names index 0 with object_id 1, the second member is written and
\* holds its prior value
C16_Witness ==
    /\ collOp.op = "Set"
    /\ collOp.err = ErrUnknownAttribute
    /\ collOp.failed = <<(<<0, GoInt(1)>>)>>
    /\ Len(objects) = 2
    /\ objects[2].attributes["memory"] = GoInt(32)
    /\ objects[2].oldValues["memory"] = Float64(16)
    /\ objects[1].oldValues = NoAttributes

\* C17: ServerObjects.Delete marks every member deleted and changes nothing
\* else; ServerObjects.Rollback leaves every member with the attributes of
\* its last settle point, an empty oldValues and a cleared deleted flag;
\* neither returns an error, whatever the state of the members.
C17_DeleteRollbackAll ==
    [][/\ collOp'.op = "Delete" =>
            /\ collOp'.err = ""
            /\ \A i \in DOMAIN objects :
                  /\ objects'[i].deleted
                  /\ objects'[i].attributes = objects[i].attributes
                  /\ objects'[i].oldValues = objects[i].oldValues
       /\ collOp'.op = "Rollback" =>
            /\ collOp'.err = ""
            /\ \A i \in DOMAIN objects :
                  /\ objects'[i].attributes = collSettled[i]
                  /\ objects'[i].oldValues = NoAttributes
                  /\ ~objects'[i].deleted
       /\ DOMAIN objects' = DOMAIN objects]_vars

\* Delete on a collection of a changed and a new member: both are marked
C17_Witness ==
    /\ collOp.op = "Delete"
    /\ Len(objects) = 2
    /\ \A i \in DOMAIN objects : objects[i].deleted
    /\ objects[1].oldValues # NoAttributes
    /\ objects[2].attributes["object_id"] = Nil

\* C18 as stated: once Count, All or One was called on a Query, the Query
\* has handed exactly one request to the transport, however many calls
\* followed the first.
C18_AsStated == queryOp.op # "new" => fetches = 1

\* C18: a call of Count, All or One hands exactly one request to the
\* transport as long as no load of the Query has succeeded, and none once a
\* load has succeeded: it then returns from the cached serverObjects, which
\* no later call changes.  SetAttributes and AddAttributes send nothing.
C18_SingleShotLoad ==
    [][/\ queryOp' # queryOp \/ fetches' # fetches =>
            /\ queryOp'.fetched = IF loaded THEN 0 ELSE 1
            /\ fetches' = fetches + queryOp'.fetched
            /\ loaded =>
                  /\ loaded'
                  /\ serverObjects' = serverObjects
                  /\ queryOp'.err \notin {ErrQuerying, ErrDecoding}
            /\ queryOp'.op \in {"Count", "All"} /\ queryOp'.err = "" =>
                  queryOp'.count = Len(serverObjects')
       /\ loaded => loaded' /\ fetches >= 1]_vars

\* a call answered from the cache, after a load that failed and one that
\* succeeded
C18_Witness ==
    /\ queryOp.op = "One"
    /\ queryOp.fetched = 0
    /\ loaded
    /\ fetches = 2
    /\ Len(serverObjects) = 1
    /\ queryOp.found = Float64(1)

\* C19: One returns the record iff the load succeeded and gave exactly one
\* record; with none it returns ErrNoResults, with n > 1 ErrMultipleResults
\* with n; when the load failed it returns the error of the load; the four
\* errors differ from each other.
C19_One ==
    /\ Cardinality({ErrNoResults, ErrMultipleResults, ErrQuerying, ErrDecoding, ""}) = 5
    /\ queryOp.op = "One" =>
          /\ queryOp.err = "" <=> loaded /\ Len(serverObjects) = 1
          /\ queryOp.err = "" => queryOp.found = serverObjects[1].attributes["object_id"]
          /\ queryOp.err = ErrNoResults <=> loaded /\ Len(serverObjects) = 0
          /\ queryOp.err = ErrMultipleResults <=> loaded /\ Len(serverObjects) > 1
          /\ queryOp.err = ErrMultipleResults => queryOp.count = Len(serverObjects)
          /\ queryOp.err \in {ErrQuerying, ErrDecoding} <=> ~loaded
          /\ queryOp.err # "" => queryOp.found = Nil

\* One on a Query that matched two records
C19_Witness ==
    /\ queryOp.op = "One"
    /\ queryOp.err = ErrMultipleResults
    /\ queryOp.count = 2
    /\ Len(serverObjects) = 2

\* the attributes of a projection other than object_id, in order
Others(attrs) == SelectSeq(attrs, LAMBDA a : a # "object_id")

\* C20: the projection of every request load sends contains object_id: when
\* restrictedAttributes, as SetAttributes and AddAttributes left it, holds
\* object_id the projection is that list, else that list with object_id
\* appended; the other attributes are sent as they were, in order.
C20_ObjectIdInProjection ==
    [][fetches' # fetches =>
        /\ "object_id" \in Range(queryOp'.restrict)
        /\ Others(queryOp'.restrict) = Others(restrictedAttributes)
        /\ "object_id" \in Range(restrictedAttributes) =>
              queryOp'.restrict = restrictedAttributes
        /\ "object_id" \notin Range(restrictedAttributes) =>
              queryOp'.restrict = restrictedAttributes \o <<"object_id">>]_vars

\* a request for memory and hostname, object_id appended
C20_Witness ==
    /\ queryOp.fetched = 1
    /\ queryOp.restrict = <<"memory", "hostname", "object_id">>
    /\ fetches = 1

\* C21: a call whose fetch got a body that does not decode returns the
\* decode error, no count and no record, and leaves the Query not loaded; as
\* long as no fetch of the Query has succeeded, every call of Count, All and
\* One returns an error, so none reports zero records.
C21_DecodeErrorSurfaced ==
    /\ queryOp.answer = "malformed body" =>
          /\ queryOp.err = ErrDecoding
          /\ queryOp.count = 0
          /\ queryOp.found = Nil
    /\ ~loaded =>
          /\ serverObjects = <<>>
          /\ queryOp.op # "new" => queryOp.err \in {ErrQuerying, ErrDecoding}
    /\ queryOp.op # "new" /\ queryOp.err = "" => loaded

\* the second call in a row that ended in a decode error
C21_Witness ==
    /\ queryOp.op = "All"
    /\ queryOp.answer = "malformed body"
    /\ queryOp.err = ErrDecoding
    /\ fetches = 2
    /\ ~loaded
    /\ serverObjects = <<>>

(***************************************************************************)
(* FromQuery                                                               *)
(***************************************************************************)
\* the text hostname=not(empty()) and the Filters its constructors build
RoundTripText == <<"hostname", "=", "not", "(", "empty", "(", ")", ")">>
Constructed == MakeFilters([f \in {"hostname"} |-> Not(Empty)])

Count(q, k, tok) == Cardinality({i \in 1..k : q[i] = tok})
\* q ends at a depth above zero: no ")" without its "(", and a "(" left open
EndsOpen(q) ==
    /\ \A k \in 1..Len(q) : Count(q, k, ")") <= Count(q, k, "(")
    /\ Count(q, Len(q), ")") < Count(q, Len(q), "(")
\* some ")" of q has no "(" before it
ClosesUnopened(q) == \E k \in 1..Len(q) : Count(q, k, ")") > Count(q, k, "(")

Created == creation.pc = "done" /\ creation.err = NoError
Failed(with) == creation.pc = "done" /\ creation.err # NoError /\ creation.err[1] = with

\* C24: the requests of NewObject are new_object, commit, query in this
\* order, each at most once; a NewObject that succeeds has made all three and
\* returns a record whose object_id is not nil and whose CommitState is
\* "consistent"; when Commit returns an error NewObject returns that error
\* wrapped and no record, after exactly the two requests new_object, commit
C24_CallProtocol ==
    /\ \E n \in 0..3 : requests = SubSeq(<<"new_object", "commit", "query">>, 1, n)
    /\ Created =>
          /\ requests = <<"new_object", "commit", "query">>
          /\ Len(creation.returned) = 1
          /\ creation.returned[1].attributes["object_id"] # Nil
          /\ ObjectID(creation.returned[1].attributes) > 0
          /\ CommitStateOf(creation.returned[1].attributes, creation.returned[1].oldValues,
                           creation.returned[1].deleted) = StateConsistent
    /\ (lastOp.op = "Commit" /\ lastOp.err # "") =>
          /\ Failed("committing new object")
          /\ creation.err[2] = lastOp.err
          /\ creation.returned = <<>>
          /\ requests = <<"new_object", "commit">>
    /\ creation.returned # <<>> => Created

C24_Witness ==
    /\ Created
    /\ requests = <<"new_object", "commit", "query">>
    /\ creation.returned[1].attributes["object_id"] = Float64(1)
    /\ DOMAIN creation.given = {"hostname", "environment"}
    /\ queryOp.op = "One"

\* C25: attributes without hostname make NewObject return the
\* unknown-attribute error before any request is sent; an attribute that is
\* not among those the new_object response lists makes it return an error
\* naming that attribute with no commit request sent, and a commit request
\* is only ever sent when every attribute of the caller is listed; in both
\* cases no record is returned
C25_Validation ==
    /\ ("hostname" \notin DOMAIN creation.given /\ creation.pc # "start") =>
          /\ Failed("attributes must include")
          /\ creation.err = <<"attributes must include", "hostname", ErrUnknownAttribute>>
          /\ requests = <<>>
          /\ creation.returned = <<>>
    /\ Failed("setting attribute") =>
          /\ creation.err[2] \in DOMAIN creation.given \ DOMAIN attributes
          /\ creation.err[3] = ErrUnknownAttribute
          /\ requests = <<"new_object">>
          /\ creation.returned = <<>>
    /\ (\E i \in DOMAIN requests : requests[i] = "commit") =>
          DOMAIN creation.given \subseteq DOMAIN attributes
    /\ (creation.pc = "done" /\ attributes # NoAttributes
          /\ ~(DOMAIN creation.given \subseteq DOMAIN attributes)) =>
          Failed("setting attribute")

C25_Witness ==
    /\ Failed("setting attribute")
    /\ creation.err[2] = "nonexistent_field"
    /\ DOMAIN creation.given = {"hostname", "nonexistent_field"}
    /\ written = {"hostname"}
    /\ requests = <<"new_object">>

\* NewObject without hostname: the error, and nothing sent
C25_WitnessNoHostname ==
    /\ Failed("attributes must include")
    /\ DOMAIN creation.given = {"environment"}
    /\ requests = <<>>

(***************************************************************************)
(* Set on a record marked deleted                                          *)
(***************************************************************************)
\* C29 as stated: a Set on a record whose deleted flag is set returns an
\* error about the deletion (neither nil nor the unknown-attribute error)
\* and leaves attributes and oldValues as they were
C29_AsStated ==
    [][(deleted /\ lastOp'.op = "Set") =>
          /\ lastOp'.err \notin {"", ErrUnknownAttribute}
          /\ attributes' = attributes
          /\ oldValues' = oldValues]_vars

(***************************************************************************)
(* MultiAttr and GetMulti                                                  *)
(***************************************************************************)
\* the step is a call of one of the given methods
Calls(names) == multiOp'.steps = multiOp.steps + 1 /\ multiOp'.op \in names

\* C26: Add, Delete and Clear keep a MultiAttr without duplicates free of
\* them; Add leaves the elements it finds in place and appends those of its
\* arguments that are not yet there, once each and in the order given, so
\* that an Add of elements already there changes nothing; Delete removes
\* every occurrence of its element and nothing else, keeping the order; Clear
\* leaves no element
C26_SetSemantics ==
    [][Calls({"Add", "Delete", "Clear"}) =>
          LET before == Elems(heap, tags)
              after == Elems(heap', tags')
              args == multiOp'.elems
              news == SubSeq(after, Len(before) + 1, Len(after))
          IN  /\ NoDuplicates(before) => NoDuplicates(after)
              /\ multiOp'.op = "Add" =>
                    /\ Len(after) >= Len(before)
                    /\ SubSeq(after, 1, Len(before)) = before
                    /\ Range(news) = Range(args) \ Range(before)
                    /\ NoDuplicates(news)
                    /\ \A i, j \in DOMAIN news :
                          i < j => \E k \in DOMAIN args :
                                      /\ args[k] = news[i]
                                      /\ \A l \in 1..k : args[l] # news[j]
                    /\ Range(args) \subseteq Range(before) => tags' = tags /\ heap' = heap
              /\ multiOp'.op = "Delete" =>
                    after = SelectSeq(before, LAMBDA v : v # args[1])
              /\ multiOp'.op = "Clear" => after = <<>>]_vars

C26_Witness ==
    /\ multiOp.op = "Add"
    /\ multiOp.elems = <<"b", "a">>
    /\ multiOp.got = <<"a">>
    /\ multiOp.steps = 2
    /\ Elems(heap, tags) = <<"a", "b">>

\* what the record holds under tags, nil when it has no such field
TagsField == IF "tags" \in DOMAIN attributes THEN attributes["tags"] ELSE Nil
\* the field tags holds a sequence of strings
HoldsStrings(h, v) == IsRef(v) /\ NonString \notin Range(Elems(h, v))

\* the record as its methods see it: the values of its fields and of its
\* prior values are the same before and after the step
RecordUntouched ==
    /\ ValuesOf(heap', attributes') = ValuesOf(heap, attributes)
    /\ ValuesOf(heap', oldValues') = ValuesOf(heap, oldValues)
    /\ deleted' = deleted
    /\ CommitStateOf(ValuesOf(heap', attributes'), ValuesOf(heap', oldValues'), deleted')
          = CommitStateOf(ValuesOf(heap, attributes), ValuesOf(heap, oldValues), deleted)

\* the step is the first Set of tags, with a MultiAttr that GetMulti returned
\* and only Add, Delete and Clear were called on since; afterwards the
\* CommitState is changed when the elements differ from those of the field
\* and consistent when they do not, and every map serializeChanges can return
\* has an entry for tags when the MultiAttr gained or lost an element since
\* GetMulti, and an entry for tags adds exactly the elements gained and
\* removes exactly the elements lost
SetReportsChanges ==
    LET added == Range(Elems(heap, tags)) \ Range(multiOp.got)
        removed == Range(multiOp.got) \ Range(Elems(heap, tags))
    IN  /\ CommitStateOf(ValuesOf(heap', attributes'), ValuesOf(heap', oldValues'), deleted')
              = IF Elems(heap, tags) = Elems(heap, TagsField)
                THEN StateConsistent ELSE StateChanged
        /\ \A c \in serializeChangesOf(ValuesOf(heap', attributes'),
                                        ValuesOf(heap', oldValues')) :
              /\ (added # {} \/ removed # {}) => "tags" \in DOMAIN c
              /\ "tags" \in DOMAIN c =>
                    /\ c["tags"].action = "multi"
                    /\ Range(c["tags"].add) = added
                    /\ Range(c["tags"].remove) = removed
FirstSetOfGot ==
    /\ Calls({"Set"})
    /\ multiOp.fresh
    /\ "tags" \in DOMAIN attributes
    /\ "tags" \notin DOMAIN oldValues

\* C27 as stated: Add, Delete and Clear on the MultiAttr leave the record as
\* it was, and after the Set with it the delta is exactly the elements added
\* and removed, whatever the field held
C27_AsStated ==
    [][/\ Calls({"Add", "Delete", "Clear"}) => RecordUntouched
       /\ FirstSetOfGot => SetReportsChanges]_vars

\* C27: Add, Delete and Clear on the MultiAttr leave the values of the
\* fields, the prior values, the deleted flag and the CommitState of the
\* record as they were, also when the MultiAttr shares its array with the
\* field; after the Set with it on a field that held a sequence of strings the
\* delta is exactly the elements added and removed
C27_FrameUntilSet ==
    [][/\ Calls({"Add", "Delete", "Clear"}) => RecordUntouched
       /\ (FirstSetOfGot /\ HoldsStrings(heap, TagsField)) => SetReportsChanges]_vars

C27_Witness ==
    /\ multiOp.op = "Set"
    /\ multiOp.steps = 3
    /\ multiOp.got = <<"a", "b">>
    /\ multiOp.captured = <<"a", "b">>
    /\ multiOp.orig.t = "[]string"
    /\ Elems(heap, TagsField) = <<"b">>
    /\ CommitStateOf(ValuesOf(heap, attributes), ValuesOf(heap, oldValues), deleted) = StateChanged

\* C28: GetMulti returns no error; for a field holding a slice it returns
\* the strings among its elements in their order, and for a record without
\* the field, a nil, a string or a number it returns an empty MultiAttr; the
\* record and the elements of its slices are as before
C28_GetMulti ==
    [][Calls({"GetMulti"}) =>
          /\ multiOp'.err = ""
          /\ tags'.t = "MultiAttr"
          /\ Elems(heap', tags')
                = SelectSeq(Elems(heap, TagsField), LAMBDA e : e # NonString)
          /\ ~IsRef(TagsField) => Elems(heap', tags') = <<>> /\ tags'.n = 0
          /\ attributes' = attributes /\ oldValues' = oldValues /\ deleted' = deleted
          /\ RecordUntouched]_vars

C28_Witness ==
    /\ multiOp.op = "GetMulti"
    /\ multiOp.got = <<"a">>
    /\ Elems(heap, tags) = <<"a">>
    /\ TagsField.t = "[]any"
    /\ Elems(heap, TagsField) = <<NonString, "a">>

\* the arrays the caller and the record can write through: that of the slice
\* the record was built with, that of the field, that of the MultiAttr
LiveArrays ==
    {v.l[1] : v \in {w \in {multiOp.orig, TagsField, tags} : IsRef(w)}} \ {0}
\* a prior value of tags is kept and is a slice
KeepsPriorSlice == "tags" \in DOMAIN oldValues /\ IsRef(oldValues["tags"])

\* C30: the prior value Set keeps for a slice has its own array: it holds the
\* elements the field had when Set was first called, whatever is written
\* afterwards through the slice that was in the field or through the slice
\* that replaced it; the delta removes only elements the field had then and
\* adds none of them, and Rollback puts those elements back
C30_PriorValueIsACopy ==
    [][/\ KeepsPriorSlice' =>
             /\ Elems(heap', oldValues'["tags"]) = multiOp'.captured
             /\ oldValues'["tags"].l[1] \notin LiveArrays'
             /\ \A c \in serializeChangesOf(ValuesOf(heap', attributes'),
                                             ValuesOf(heap', oldValues')) :
                   ("tags" \in DOMAIN c /\ c["tags"].action = "multi") =>
                       /\ Range(c["tags"].remove) \subseteq Range(multiOp'.captured)
                       /\ Range(c["tags"].add) \cap Range(multiOp'.captured) = {}
       /\ (Calls({"Rollback"}) /\ KeepsPriorSlice) =>
             /\ Elems(heap', attributes'["tags"]) = multiOp.captured
             /\ oldValues' = NoAttributes]_vars

C30_Witness ==
    /\ multiOp.op = "WriteOriginal"
    /\ multiOp.steps = 2
    /\ multiOp.captured = <<"a", "b">>
    /\ KeepsPriorSlice
    /\ Elems(heap, oldValues["tags"]) = <<"a", "b">>
    /\ Written \in Range(Elems(heap, multiOp.orig))

(***************************************************************************)
(* Change detection, baseline and frame of Set                             *)
(***************************************************************************)
\* the record is on the server and not marked deleted
Persisted == attributes["object_id"] # Nil /\ ~deleted
\* the last call set a key back to the value it had at the last settle point,
\* and no other key was written since
SetBackToOriginal ==
    /\ lastOp.op = "Set"
    /\ lastOp.err = ""
    /\ lastOp.tracked
    /\ written = {lastOp.key}
    /\ lastOp.value = settled[lastOp.key]

\* C33 as stated: for a persisted record that is not deleted, CommitState is
\* "changed" exactly when serializeChanges holds a field besides object_id;
\* after a Set of a field back to its original value the record is
\* "consistent" and its delta holds object_id only, while oldValues still has
\* the field
C33_AsStated ==
    Persisted =>
        /\ \A c \in serializeChanges :
              CommitState = StateChanged <=> DOMAIN c \ {"object_id"} # {}
        /\ SetBackToOriginal =>
              /\ CommitState = StateConsistent
              /\ \A c \in serializeChanges : DOMAIN c = {"object_id"}
              /\ lastOp.key \in DOMAIN oldValues

\* C34: a successful Commit keeps the values of the fields (object_id of a
\* deleted record apart) and makes them the baseline: the first Set of a key
\* afterwards records as prior value the value the key had at the commit, a
\* Rollback restores every key to it, and a Rollback directly after the
\* commit changes no value
C34_BaselineMoves ==
    [][/\ (lastOp'.op = "Commit" /\ lastOp'.err = "") =>
             /\ \A key \in DOMAIN attributes \ {"object_id"} :
                   attributes'[key] = attributes[key]
             /\ oldValues' = NoAttributes
       /\ (lastOp.op = "Commit" /\ lastOp.err = "" /\ lastOp'.op = "Set" /\ lastOp'.err = "") =>
             /\ ~lastOp'.tracked
             /\ DOMAIN oldValues' = {lastOp'.key}
             /\ SameValue(oldValues'[lastOp'.key], attributes[lastOp'.key])
       /\ (lastOp'.op = "Set" /\ lastOp'.err = "") =>
             SameValue(oldValues'[lastOp'.key], settled[lastOp'.key])
       /\ lastOp'.op = "Rollback" =>
             \A key \in DOMAIN attributes : SameValue(attributes'[key], settled[key])
       /\ (lastOp.op = "Commit" /\ lastOp.err = "" /\ lastOp'.op = "Rollback") =>
             attributes' = attributes]_vars

\* tags was set to a []string and committed (no fetch and no Rollback gives
\* a []string), then set again: the prior value holds the committed elements
C34_Witness ==
    /\ lastOp.op = "Set"
    /\ lastOp.key = "tags"
    /\ ~lastOp.tracked
    /\ settled["tags"] = StringSlice(<<"a">>)
    /\ oldValues = [key \in {"tags"} |-> AnySlice(<<"a">>)]
    /\ attributes["tags"] = AnySlice(<<"b">>)

\* C36: a Set of a key leaves the values of the other keys, the prior values
\* of the other keys and the deleted flag as they were, and a Set that fails
\* leaves the whole record as it was
C36_SetFrame ==
    [][lastOp'.op = "Set" =>
          /\ DOMAIN attributes' = DOMAIN attributes
          /\ \A key \in DOMAIN attributes \ {lastOp'.key} : attributes'[key] = attributes[key]
          /\ DOMAIN oldValues' \ {lastOp'.key} = DOMAIN oldValues \ {lastOp'.key}
          /\ \A key \in DOMAIN oldValues \ {lastOp'.key} : oldValues'[key] = oldValues[key]
          /\ deleted' = deleted
          /\ lastOp'.err # "" => attributes' = attributes /\ oldValues' = oldValues]_vars

\* a Set of tags went through on a record marked deleted that has a prior
\* value for hostname
C36_Witness ==
    /\ lastOp.op = "Set"
    /\ lastOp.err = ""
    /\ lastOp.key = "tags"
    /\ deleted
    /\ DOMAIN oldValues = {"hostname", "tags"}
    /\ attributes["hostname"] # oldValues["hostname"]

\* a Set of an unknown key failed on a record with pending changes
C36_WitnessFailed ==
    /\ lastOp.op = "Set"
    /\ lastOp.err = ErrUnknownAttribute
    /\ deleted
    /\ DOMAIN oldValues = {"hostname"}

(***************************************************************************)
(* sliceDiff as a relation between its arguments and its results           *)
(***************************************************************************)
\* C35: whatever the two sequences, add and remove have no element in
\* common, no element of add is in old, every element of remove is in old,
\* neither holds an element twice, and the elements of old without those of
\* remove, with those of add, are the elements of new
C35_DiffAlgebra ==
    diffOut # NoDiff =>
        LET add == Range(diffOut.add)
            remove == Range(diffOut.remove)
        IN  /\ add \cap remove = {}
            /\ add \cap Range(diffOld) = {}
            /\ remove \subseteq Range(diffOld)
            /\ Len(diffOut.add) = Cardinality(add)
            /\ Len(diffOut.remove) = Cardinality(remove)
            /\ (Range(diffOld) \ remove) \cup add = Range(diffCur)

\* sliceDiff was called on sequences that repeat elements and share one:
\* old = [a, a], new = [b, b] gives add = [b], remove = [a]
C35_Witness ==
    /\ diffOld = <<"a", "a">>
    /\ diffCur = <<"b", "b">>
    /\ diffOut = [add |-> <<"b">>, remove |-> <<"a">>]

(***************************************************************************)
(* A second Commit of the collection                                       *)
(***************************************************************************)
\* ServerObjects.Commit goes into sendRequest directly after a
\* ServerObjects.Commit that returned no error: no call on the collection or
\* on a member returned in between
CommitsAgain ==
    /\ collOp.op = "Commit"
    /\ collOp.err = ""
    /\ call = Idle
    /\ call'.scope = "ServerObjects.Commit"
\* the members without an object_id, in order
Unidentified ==
    SelectSeq([i \in DOMAIN objects |-> i],
              LAMBDA i : objects[i].attributes["object_id"] = Nil)
StateOfMember(obj) == CommitStateOf(obj.attributes, obj.oldValues, obj.deleted)

\* C31 as stated: the request of a second Commit that follows a successful
\* one without a mutation in between has created, changed and deleted empty,
\* whatever the states of the members were
C31_AsStated ==
    [][CommitsAgain => wire' = <<EmptyCommit>>]_vars

\* C31: a successful Commit of the collection leaves every member without
\* prior values and without the deleted mark, and without object_id exactly
\* when it was "created" or "deleted" before; the request of a second Commit
\* that follows without a mutation in between has changed and deleted empty
\* and lists under created the attributes of the members without object_id,
\* so that it is empty exactly when every member has one
C31_SecondCommit ==
    [][/\ (collOp'.op = "Commit" /\ collOp'.err = "" /\ CommitReturns) =>
             \A i \in DOMAIN objects :
                /\ objects'[i].oldValues = NoAttributes
                /\ ~objects'[i].deleted
                /\ objects'[i].attributes["object_id"] = Nil
                      <=> StateOfMember(objects[i]) \in {StateCreated, StateDeleted}
                /\ StateOfMember(objects'[i]) \in {StateCreated, StateConsistent}
       /\ CommitsAgain =>
             /\ Len(wire') = 1
             /\ wire'[1].changed = <<>>
             /\ wire'[1].deleted = <<>>
             /\ wire'[1].created =
                   [k \in DOMAIN Unidentified |-> objects[Unidentified[k]].attributes]
             /\ wire'[1] = EmptyCommit <=> Unidentified = <<>>]_vars

\* the second Commit of two members, one changed and one created or deleted
\* at the first Commit, is in sendRequest: its request creates the member
\* that has no object_id
C31_Witness ==
    /\ call.scope = "ServerObjects.Commit"
    /\ collOp.op = "Commit"
    /\ collOp.err = ""
    /\ Len(objects) = 2
    /\ objects[1].attributes["object_id"] = Float64(1)
    /\ "memory" \in DOMAIN objects[1].attributes
    /\ objects[1].attributes["memory"] = GoInt(32)
    /\ objects[2].attributes["object_id"] = Nil
    /\ collSettled[2]["object_id"] = Nil
    /\ Len(wire) = 1
    /\ wire[1].changed = <<>>
    /\ wire[1].created = <<objects[2].attributes>>

\* the second Commit of two persisted members, changed at the first Commit,
\* is in sendRequest with an empty request
C31_WitnessEmpty ==
    /\ call.scope = "ServerObjects.Commit"
    /\ collOp.op = "Commit"
    /\ collOp.err = ""
    /\ Len(objects) = 2
    /\ \A i \in {1, 2} :
          /\ "memory" \in DOMAIN objects[i].attributes
          /\ objects[i].attributes["memory"] = GoInt(32)
    /\ wire = <<EmptyCommit>>

\* a call of Count, All or One returned in this step
QueryCalled == queryOp' # queryOp \/ fetches' # fetches
\* the errors load returns when the fetch fails
FetchErrors == {ErrQuerying, ErrDecoding}
\* the last call sent a request and the request failed
FetchFailed == queryOp.fetched = 1 /\ queryOp.err \in FetchErrors

\* C37: a fetch that fails, by a transport error or by a body that does not
\* decode, leaves the Query not loaded and without records: the failing call
\* returns the error, no count and no record; the next call of Count, All or
\* One sends a request of its own; and loaded turns true only in a call whose
\* request was answered by a response that decodes
C37_FailedFetchNotCached ==
    [][ /\ (QueryCalled /\ queryOp'.answer \in {"transport error", "malformed body"}) =>
            /\ queryOp'.err \in FetchErrors
            /\ queryOp'.fetched = 1
            /\ queryOp'.count = 0
            /\ queryOp'.found = Nil
            /\ ~loaded'
            /\ serverObjects' = <<>>
        /\ (FetchFailed /\ QueryCalled) =>
            /\ queryOp'.fetched = 1
            /\ fetches' = fetches + 1
            /\ queryOp'.answer # ""
        /\ (~loaded /\ loaded') =>
            /\ queryOp'.fetched = 1
            /\ queryOp'.answer = "decoded"
            /\ queryOp'.err \notin FetchErrors
        /\ (~loaded /\ ~QueryCalled) => ~loaded'
      ]_vars
\* the first fetch failed, the second call fetched again and loaded
\* the two records of the response
C37_Witness ==
    /\ fetches = 2
    /\ loaded
    /\ queryOp.op = "All"
    /\ queryOp.fetched = 1
    /\ queryOp.answer = "decoded"
    /\ Len(serverObjects) = 2
\* a call that failed on a transport error, right after one that failed to decode
C37_WitnessFailedTwice ==
    /\ fetches = 2
    /\ ~loaded
    /\ queryOp.op = "Count"
    /\ queryOp.err = ErrQuerying

(***************************************************************************)
(* Records held by two collections                                         *)
(***************************************************************************)
OtherHolder(name) == IF name = "A" THEN "B" ELSE "A"
\* the records both collections hold
Shared == Held("A") \cap Held("B")
\* a call through one of the collections returned in this step
ShareCalled == shareOp' # shareOp \/ objects' # objects
\* the request lists the record under changed, or its identity under deleted
Lists(request, obj) ==
    \/ \E i \in DOMAIN request.changed :
          request.changed[i]["object_id"] = IdentityEntry(ObjectID(obj.attributes))
    \/ \E i \in DOMAIN request.deleted :
          request.deleted[i] = Get(obj.attributes, "object_id")

\* C32: a record two collections hold has one state.  What a Set, a Delete,
\* a Rollback or a Commit that returned no error through one collection did
\* to it is what a loop over the other collection finds: the value set, the
\* deleted mark, the values of the last settle point, no pending change
\* after the Commit; a record only the other collection holds is as it was.
\* A Commit through the other collection that directly follows a Commit
\* that returned no error lists no record both hold under changed or
\* deleted
C32_SharedRecordOneState ==
    [][ /\ ShareCalled =>
            LET via == shareOp'.via
                other == colls[OtherHolder(via)]
            IN  \A i \in DOMAIN other :
                    LET was == objects[other[i]]
                        now == objects'[other[i]]
                    IN  IF other[i] \notin Held(via) THEN now = was
                        ELSE CASE shareOp'.op = "Set" ->
                                    IF "memory" \in DOMAIN was.attributes
                                    THEN /\ Get(now.attributes, "memory") = GoInt(32)
                                         /\ "memory" \in DOMAIN now.oldValues
                                    ELSE now = was /\ shareOp'.err = ErrUnknownAttribute
                               [] shareOp'.op = "Delete" ->
                                    /\ now.deleted
                                    /\ CommitStateOf(now.attributes, now.oldValues, now.deleted)
                                          \in {StateDeleted, StateCreated}
                               [] shareOp'.op = "Rollback" ->
                                    /\ now.attributes = collSettled[other[i]]
                                    /\ CommitStateOf(now.attributes, now.oldValues, now.deleted)
                                          \in {StateConsistent, StateCreated}
                               [] shareOp'.op = "Commit" /\ shareOp'.err = "" ->
                                    /\ now.attributes["hostname"] = was.attributes["hostname"]
                                    /\ Get(now.attributes, "memory") = Get(was.attributes, "memory")
                                    /\ CommitStateOf(now.attributes, now.oldValues, now.deleted)
                                          \in {StateConsistent, StateCreated}
                               [] OTHER -> now = was
        /\ (/\ shareOp.op = "Commit"
            /\ shareOp.err = ""
            /\ shareOp'.op = "Commit"
            /\ shareOp'.via = OtherHolder(shareOp.via)) =>
               \A a \in Shared : ~Lists(shareOp'.sent[1], objects[a])
      ]_vars
\* Set through B reached the two records, Commit through A sent the change
\* of the record both hold, and the Commit through B that followed sent the
\* change of the record only B holds
C32_Witness ==
    /\ colls = [name \in HolderNames |-> IF name = "A" THEN <<1>> ELSE <<1, 2>>]
    /\ shareOp.op = "Commit"
    /\ shareOp.via = "B"
    /\ shareOp.err = ""
    /\ shareOp.after # <<>>
    /\ Len(shareOp.after[1].changed) = 1
    /\ shareOp.after[1].changed[1]["object_id"] = IdentityEntry(1)
    /\ Len(shareOp.sent[1].changed) = 1
    /\ shareOp.sent[1].changed[1]["object_id"] = IdentityEntry(2)
    /\ Get(objects[1].attributes, "memory") = GoInt(32)
\* Delete through A, seen by a Commit through B that sends the deletion
C32_WitnessDelete ==
    /\ 1 \in Shared
    /\ shareOp.op = "Commit"
    /\ shareOp.via = "B"
    /\ shareOp.after = <<>>
    /\ shareOp.sent[1].deleted = <<GoInt(1)>>
    /\ Held("B") = {1}

(***************************************************************************)
(* The cached result set of a loaded Query                                 *)
(***************************************************************************)
\* SetAttributes, AddAttributes, OrderBy or AddFilter returned (or panicked)
\* in this step
QueryMutated ==
    \/ restrictedAttributes' # restrictedAttributes
    \/ queryFilters' # queryFilters
    \/ queryOrderBy' # queryOrderBy
    \/ refs'.panic # refs.panic

\* C38: once the Query is loaded it stays loaded and sends no request; Count,
\* All and One leave the cached records as they are, Count returns their
\* number, All returns the slice of their addresses and One the address of
\* the only one, the same on every call; SetAttributes, AddAttributes,
\* OrderBy and AddFilter leave loaded, the cached records and what the caller
\* holds as they are; and the record the caller holds from One is the record
\* it holds from All, so that a value set through one is the value, with its
\* prior value, found through the other
C38_CachedInstances ==
    [][ /\ loaded =>
            /\ loaded'
            /\ fetches' = fetches
            /\ DOMAIN serverObjects' = DOMAIN serverObjects
            /\ queryOp' # queryOp =>
                  /\ serverObjects' = serverObjects
                  /\ queryOp'.fetched = 0
                  /\ queryOp'.op = "Count" => queryOp'.count = Len(serverObjects)
                  /\ queryOp'.op = "All" => refs'.all = [i \in DOMAIN serverObjects |-> i]
                  /\ (queryOp'.op = "One" /\ Len(serverObjects) = 1) => refs'.one = 1
                  /\ (refs.all # <<>> /\ refs'.all # <<>>) => refs'.all = refs.all
                  /\ (refs.one # 0 /\ refs'.one # 0) => refs'.one = refs.one
            /\ QueryMutated =>
                  /\ serverObjects' = serverObjects
                  /\ refs'.all = refs.all
                  /\ refs'.one = refs.one
        /\ (refs'.one # 0 /\ refs'.all # <<>>) =>
            /\ refs'.all = <<refs'.one>>
            /\ refs'.one \in DOMAIN serverObjects'
            /\ refs'.through # "" =>
                  /\ Get(serverObjects'[refs'.one].attributes, "hostname") = Str("h2")
                  /\ Get(serverObjects'[refs'.all[1]].attributes, "hostname") = Str("h2")
                  /\ serverObjects'[refs'.all[1]].oldValues = [key \in {"hostname"} |-> Str("h1")]
      ]_vars
\* the caller set hostname through the pointer from One and finds the pending
\* change on the record of the slice from All; SetAttributes, OrderBy and
\* AddFilter were called after the one fetch
C38_Witness ==
    /\ loaded
    /\ fetches = 1
    /\ refs.through = "one"
    /\ refs.all = <<1>>
    /\ queryOp.op = "All"
    /\ queryOp.fetched = 0
    /\ serverObjects[refs.all[1]].oldValues = [key \in {"hostname"} |-> Str("h1")]
    /\ restrictedAttributes = <<"hostname">>
    /\ queryOrderBy = "hostname"
    /\ queryFilters = MakeFilters([k \in {"hostname"} |-> Str("web")])

====
